---- MODULE Spec2Model ----
(***************************************************************************)
(* The BlockDesk ticket registry (contract BlockDesk) as a state machine.  *)
(* One action per external function of the contract; a call whose require  *)
(* fails reverts, i.e. leaves the storage and the event log as they were.  *)
(* Every call leaves a receipt (its arguments, outcome and return value),   *)
(* which the caller reads before the next call is made.                     *)
(* The ticket form of the web client (handleSubmit in routes/test.tsx) is   *)
(* modelled with it, as the sender of createTicket transactions.            *)
(* The wallet context (connectWallet and disconnectWallet in               *)
(* contexts/Web3Context.tsx) is modelled beside it.                         *)
(***************************************************************************)
EXTENDS Integers, Sequences, FiniteSets, TLC

\* ------------------------------------------------------------------ bounds
MaxTickets == 2      \* at most MaxTickets tickets are created
MaxComments == 2     \* at most MaxComments comments are added
MaxEvents == 3       \* at most MaxEvents events are emitted
MaxTime == 2         \* block.timestamp ranges over 1..MaxTime
MaxLifecycleTickets == 1  \* tickets created in the Manager lifecycle (SpecLifecycle)
MaxLifecycleEvents == 4   \* events emitted in the Manager lifecycle (SpecLifecycle)
MaxThreadEvents == 4      \* events emitted in the comment threads (SpecThread)
MaxSubmissions == 2       \* submissions of the ticket form (SpecForm)
MaxConnects == 2          \* calls of connectWallet (SpecWallet)
MaxClientConnects == 1    \* calls of connectWallet beside the form (SpecClient)
MaxClientSubmissions == 1 \* submissions of the form beside the wallet (SpecClient)

\* ------------------------------------------------------------------ inputs
ZERO == "0x0"                         \* address(0)
Deployer == "M"                       \* msg.sender of the constructor
Callers == {"M", "A"}                 \* externally owned accounts that send calls
Addresses == Callers \cup {ZERO}      \* values of an address argument
TicketIds == 0 .. MaxTickets          \* ticket ids probed by the calls
TicketKeys == 0 .. (MaxTickets + 1)   \* keys of the ticket mappings that are read or written
Titles == {"Printer jam"}
Descriptions == {"QmDesc"}
AttachmentHashes == {"QmFile"}
Contents == {"", "still broken"}      \* comment contents, the empty one included

\* --------------------------------------------------------------- the types
TicketStatus == {"Open", "InProgress", "Resolved", "Closed"}
UserRole == {"User", "Manager"}

\* The zero-valued record a mapping(uint256 => Ticket) holds at an unwritten key.
ZeroTicket ==
    [id |-> 0, creator |-> ZERO, assignedTo |-> ZERO, title |-> "",
     description |-> "", attachmentHash |-> "", status |-> "Open",
     createdAt |-> 0, updatedAt |-> 0]

VARIABLES
    tickets,          \* mapping(uint256 => Ticket)
    userRoles,        \* mapping(address => UserRole)
    ticketComments,   \* mapping(uint256 => Comment[])
    nextTicketId,     \* uint256, starts at 1
    nextCommentId,    \* uint256, starts at 1
    events,           \* the contract's event log, in emission order
    now,              \* block.timestamp of the block being built
    last,             \* the receipt of the call just made, or Idle between calls
    form,             \* the ticket form of the web client (CreateTicket in test.tsx)
    wallet            \* the wallet context of the web client (Web3Provider)

storage == <<tickets, userRoles, ticketComments, nextTicketId, nextCommentId>>
registry == <<tickets, userRoles, ticketComments, nextTicketId, nextCommentId, events>>
vars ==
    <<tickets, userRoles, ticketComments, nextTicketId, nextCommentId, events, now, last, form, wallet>>

\* ------------------------------------------------------- the call recorded
Call(op, sender, ticketId, args, result, ret) ==
    [op |-> op, sender |-> sender, ticketId |-> ticketId, args |-> args,
     result |-> result, ret |-> ret, at |-> now]

\* No call is waiting for its receipt to be read.
Idle ==
    [op |-> "idle", sender |-> ZERO, ticketId |-> 0, args |-> <<>>,
     result |-> "idle", ret |-> <<>>, at |-> 0]

\* A failed require: the transaction reverts with the given reason string.
Revert(op, sender, ticketId, args, reason) ==
    /\ last' = Call(op, sender, ticketId, args, reason, <<>>)
    /\ UNCHANGED registry

\* ----------------------------------------------------------- the ticket form
\* The form before its first submission: nothing validated, uploaded or sent.
FormIdle ==
    [pc |-> "idle", submissions |-> 0, valid |-> FALSE, connected |-> FALSE,
     contract |-> FALSE, attachment |-> FALSE, descriptionHash |-> "",
     attachmentHash |-> "", sent |-> 0, isSubmitting |-> FALSE,
     notice |-> "none", outcome |-> "none"]

\* -------------------------------------------------------- the wallet context
ConnectCalls == 1 .. MaxConnects

\* useState<User | null>(null): no user.
NoUser == [address |-> ZERO, role |-> "none"]

\* A connectWallet call that has not been made yet.
NoCall == [pc |-> "unused", accounts |-> <<>>, role |-> "USER", path |-> "none"]

\* The context as Web3Provider mounts it.  provider, signer and contract hold
\* the number of the connectWallet call that made them, 0 for null; running
\* names the handler that holds the thread between two of its setters.
\* account is the first account the wallet exposes (none while it is locked),
\* and heard the last accountsChanged notification the context's listener
\* received, tick changing with each one.
WalletIdle ==
    [ethereum |-> FALSE, isConnected |-> FALSE, isConnecting |-> FALSE,
     user |-> NoUser, provider |-> 0, signer |-> 0, contract |-> 0,
     calls |-> [c \in ConnectCalls |-> NoCall],
     running |-> "none", runner |-> 0, step |-> 0,
     account |-> ZERO, heard |-> [any |-> FALSE, tick |-> 0, accounts |-> <<>>]]

\* ------------------------------------------------------------ constructor
\* A constructor after which every identity starts as a Manager.
InitAllManagers ==
    /\ tickets = [i \in TicketKeys |-> ZeroTicket]
    /\ userRoles = [a \in Addresses |-> "Manager"]
    /\ ticketComments = [i \in TicketKeys |-> <<>>]
    /\ nextTicketId = 1
    /\ nextCommentId = 1
    /\ events = <<>>
    /\ now = 1
    /\ last = Idle
    /\ form = FormIdle
    /\ wallet = WalletIdle

Init ==
    /\ tickets = [i \in TicketKeys |-> ZeroTicket]
    /\ userRoles = [a \in Addresses |-> IF a = Deployer THEN "Manager" ELSE "User"]
    /\ ticketComments = [i \in TicketKeys |-> <<>>]
    /\ nextTicketId = 1
    /\ nextCommentId = 1
    /\ events = <<>>
    /\ now = 1
    /\ last = Idle
    /\ form = FormIdle
    /\ wallet = WalletIdle

\* ----------------------------------------------------------------- guards
\* A modifier that still lets the deployer through after a demotion.
onlyManagerOrDeployer(sender) == userRoles[sender] = "Manager" \/ sender = Deployer

\* modifier onlyManager
onlyManager(sender) == userRoles[sender] = "Manager"

\* An existence check by the counter alone, which lets id 0 through.
TicketExistsBelowCounter(ticketId) == ticketId < nextTicketId

\* require(tickets[ticketId].id != 0, "Ticket does not exist")
TicketExists(ticketId) == tickets[ticketId].id # 0

\* An authorisation check that forgets the assignee.
MayUpdateStatusNoAssignee(sender, ticketId) ==
    \/ tickets[ticketId].creator = sender
    \/ userRoles[sender] = "Manager"

\* the authorisation require of updateStatus
MayUpdateStatus(sender, ticketId) ==
    \/ tickets[ticketId].creator = sender
    \/ tickets[ticketId].assignedTo = sender
    \/ userRoles[sender] = "Manager"

\* An assignee check that accepts the deployer alone.
AssigneeIsDeployer(assignee) == assignee = Deployer

\* require(userRoles[assignee] == UserRole.Manager, "Can only assign to Managers")
AssigneeIsManager(assignee) == userRoles[assignee] = "Manager"

\* the status require of reopenTicket
MayReopen(ticketId) ==
    \/ tickets[ticketId].status = "Closed"
    \/ tickets[ticketId].status = "Resolved"

\* A content check that lets the empty string through.
ContentUnchecked(content) == Len(content) >= 0

\* require(bytes(content).length > 0, "Comment cannot be empty")
ContentNonEmpty(content) == Len(content) > 0

\* ---------------------------------------------------------------- effects
\* A Ticket struct whose updatedAt is left at its zero value.
NewTicketNoUpdatedAt(ticketId, sender, title, description, attachmentHash) ==
    [id |-> ticketId, creator |-> sender, assignedTo |-> ZERO, title |-> title,
     description |-> description, attachmentHash |-> attachmentHash,
     status |-> "Open", createdAt |-> now, updatedAt |-> 0]

\* The Ticket struct createTicket stores.
NewTicket(ticketId, sender, title, description, attachmentHash) ==
    [id |-> ticketId, creator |-> sender, assignedTo |-> ZERO, title |-> title,
     description |-> description, attachmentHash |-> attachmentHash,
     status |-> "Open", createdAt |-> now, updatedAt |-> now]

\* A status store that leaves updatedAt as it was.
StatusSetKeepsTime(t, status) == [t EXCEPT !.status = status]

\* A status store that writes a fresh struct over the ticket.
StatusSetFresh(t, status) == [ZeroTicket EXCEPT !.status = status, !.updatedAt = now]

\* The two stores of updateStatus, resolveTicket and closeTicket.
StatusSet(t, status) == [t EXCEPT !.status = status, !.updatedAt = now]

\* An assignment that leaves the status as it was.
AssignedKeepsStatus(t, assignee) == [t EXCEPT !.assignedTo = assignee, !.updatedAt = now]

\* The three stores of assignTicket.
Assigned(t, assignee) ==
    [t EXCEPT !.assignedTo = assignee, !.status = "InProgress", !.updatedAt = now]

\* A reopen that also restarts the ticket's creation time.
ReopenedAsNew(t) ==
    [t EXCEPT !.status = "Open", !.assignedTo = ZERO, !.updatedAt = now, !.createdAt = now]

\* A reopen that does not clear the assignment.
ReopenedKeepsAssignee(t) == [t EXCEPT !.status = "Open", !.updatedAt = now]

\* The three stores of reopenTicket.
Reopened(t) == [t EXCEPT !.status = "Open", !.assignedTo = ZERO, !.updatedAt = now]

\* A Comment struct that takes its id from the ticket.
NewCommentIdFromTicket(commentId, ticketId, sender, content) ==
    [id |-> ticketId, ticketId |-> ticketId, author |-> sender,
     content |-> content, createdAt |-> now]

\* The Comment struct addComment pushes.
NewComment(commentId, ticketId, sender, content) ==
    [id |-> commentId, ticketId |-> ticketId, author |-> sender,
     content |-> content, createdAt |-> now]

\* The events of the contract.
TicketCreated(ticketId, creator, title) ==
    [name |-> "TicketCreated", ticketId |-> ticketId, creator |-> creator, title |-> title]
StatusUpdated(ticketId, status, updater) ==
    [name |-> "StatusUpdated", ticketId |-> ticketId, status |-> status, updater |-> updater]
TicketAssigned(ticketId, assignee, assigner) ==
    [name |-> "TicketAssigned", ticketId |-> ticketId, assignee |-> assignee,
     assigner |-> assigner]
TicketReopened(ticketId, reopener) ==
    [name |-> "TicketReopened", ticketId |-> ticketId, reopener |-> reopener]
CommentAdded(ticketId, commentId, author) ==
    [name |-> "CommentAdded", ticketId |-> ticketId, commentId |-> commentId,
     author |-> author]

\* A push that writes the new comment over the last one.
PushOverLast(comments, c) ==
    IF comments = <<>> THEN <<c>> ELSE [comments EXCEPT ![Len(comments)] = c]

\* A push that puts the new comment in front.
PushFront(comments, c) == <<c>> \o comments

\* ticketComments[ticketId].push(newComment)
Push(comments, c) == Append(comments, c)

\* An emit that overwrites the log with the new event.
EmitOverwrite(e) == events' = <<e>>

\* emit E
Emit(e) == events' = Append(events, e)

\* ---------------------------------------------------------------- actions
\* A createTicket that reads the counter without incrementing it.
createTicketNoIncrement(sender, title, description, attachmentHash) ==
    /\ LET ticketId == nextTicketId IN
        /\ nextTicketId' = nextTicketId
        /\ tickets' = [tickets EXCEPT
                ![ticketId] = NewTicket(ticketId, sender, title, description, attachmentHash)]
        /\ Emit(TicketCreated(ticketId, sender, title))
        /\ last' = Call("createTicket", sender, ticketId,
                        <<title, description, attachmentHash>>, "ok", <<ticketId>>)
    /\ UNCHANGED <<userRoles, ticketComments, nextCommentId>>

createTicket(sender, title, description, attachmentHash) ==
    /\ LET ticketId == nextTicketId IN
        /\ nextTicketId' = nextTicketId + 1
        /\ tickets' = [tickets EXCEPT
                ![ticketId] = NewTicket(ticketId, sender, title, description, attachmentHash)]
        /\ Emit(TicketCreated(ticketId, sender, title))
        /\ last' = Call("createTicket", sender, ticketId,
                        <<title, description, attachmentHash>>, "ok", <<ticketId>>)
    /\ UNCHANGED <<userRoles, ticketComments, nextCommentId>>

\* An updateStatus that refuses to move a Closed or Resolved ticket.
updateStatusNotFromTerminal(sender, ticketId, status) ==
    IF ~TicketExists(ticketId)
    THEN Revert("updateStatus", sender, ticketId, <<status>>, "Ticket does not exist")
    ELSE IF ~MayUpdateStatus(sender, ticketId)
    THEN Revert("updateStatus", sender, ticketId, <<status>>, "Not authorized")
    ELSE IF MayReopen(ticketId)
    THEN Revert("updateStatus", sender, ticketId, <<status>>, "Invalid transition")
    ELSE /\ tickets' = [tickets EXCEPT ![ticketId] = StatusSet(@, status)]
         /\ Emit(StatusUpdated(ticketId, status, sender))
         /\ last' = Call("updateStatus", sender, ticketId, <<status>>, "ok", <<>>)
         /\ UNCHANGED <<userRoles, ticketComments, nextTicketId, nextCommentId>>

updateStatus(sender, ticketId, status) ==
    IF ~TicketExists(ticketId)
    THEN Revert("updateStatus", sender, ticketId, <<status>>, "Ticket does not exist")
    ELSE IF ~MayUpdateStatus(sender, ticketId)
    THEN Revert("updateStatus", sender, ticketId, <<status>>, "Not authorized")
    ELSE /\ tickets' = [tickets EXCEPT ![ticketId] = StatusSet(@, status)]
         /\ Emit(StatusUpdated(ticketId, status, sender))
         /\ last' = Call("updateStatus", sender, ticketId, <<status>>, "ok", <<>>)
         /\ UNCHANGED <<userRoles, ticketComments, nextTicketId, nextCommentId>>

\* An assignTicket that takes any identity as assignee.
assignTicketToAnyone(sender, ticketId, assignee) ==
    IF ~onlyManager(sender)
    THEN Revert("assignTicket", sender, ticketId, <<assignee>>, "Not authorized: Manager only")
    ELSE IF ~TicketExists(ticketId)
    THEN Revert("assignTicket", sender, ticketId, <<assignee>>, "Ticket does not exist")
    ELSE /\ tickets' = [tickets EXCEPT ![ticketId] = Assigned(@, assignee)]
         /\ Emit(TicketAssigned(ticketId, assignee, sender))
         /\ last' = Call("assignTicket", sender, ticketId, <<assignee>>, "ok", <<>>)
         /\ UNCHANGED <<userRoles, ticketComments, nextTicketId, nextCommentId>>

assignTicket(sender, ticketId, assignee) ==
    IF ~onlyManager(sender)
    THEN Revert("assignTicket", sender, ticketId, <<assignee>>, "Not authorized: Manager only")
    ELSE IF ~TicketExists(ticketId)
    THEN Revert("assignTicket", sender, ticketId, <<assignee>>, "Ticket does not exist")
    ELSE IF ~AssigneeIsManager(assignee)
    THEN Revert("assignTicket", sender, ticketId, <<assignee>>, "Can only assign to Managers")
    ELSE /\ tickets' = [tickets EXCEPT ![ticketId] = Assigned(@, assignee)]
         /\ Emit(TicketAssigned(ticketId, assignee, sender))
         /\ last' = Call("assignTicket", sender, ticketId, <<assignee>>, "ok", <<>>)
         /\ UNCHANGED <<userRoles, ticketComments, nextTicketId, nextCommentId>>

\* A resolveTicket that accepts a ticket in progress only.
resolveTicketFromInProgress(sender, ticketId) ==
    IF ~onlyManager(sender)
    THEN Revert("resolveTicket", sender, ticketId, <<>>, "Not authorized: Manager only")
    ELSE IF ~TicketExists(ticketId)
    THEN Revert("resolveTicket", sender, ticketId, <<>>, "Ticket does not exist")
    ELSE IF tickets[ticketId].status # "InProgress"
    THEN Revert("resolveTicket", sender, ticketId, <<>>, "Invalid transition")
    ELSE /\ tickets' = [tickets EXCEPT ![ticketId] = StatusSet(@, "Resolved")]
         /\ Emit(StatusUpdated(ticketId, "Resolved", sender))
         /\ last' = Call("resolveTicket", sender, ticketId, <<>>, "ok", <<>>)
         /\ UNCHANGED <<userRoles, ticketComments, nextTicketId, nextCommentId>>

resolveTicket(sender, ticketId) ==
    IF ~onlyManager(sender)
    THEN Revert("resolveTicket", sender, ticketId, <<>>, "Not authorized: Manager only")
    ELSE IF ~TicketExists(ticketId)
    THEN Revert("resolveTicket", sender, ticketId, <<>>, "Ticket does not exist")
    ELSE /\ tickets' = [tickets EXCEPT ![ticketId] = StatusSet(@, "Resolved")]
         /\ Emit(StatusUpdated(ticketId, "Resolved", sender))
         /\ last' = Call("resolveTicket", sender, ticketId, <<>>, "ok", <<>>)
         /\ UNCHANGED <<userRoles, ticketComments, nextTicketId, nextCommentId>>

\* A closeTicket that closes every ticket of the registry.
closeTicketAll(sender, ticketId) ==
    IF ~onlyManager(sender)
    THEN Revert("closeTicket", sender, ticketId, <<>>, "Not authorized: Manager only")
    ELSE IF ~TicketExists(ticketId)
    THEN Revert("closeTicket", sender, ticketId, <<>>, "Ticket does not exist")
    ELSE /\ tickets' = [j \in DOMAIN tickets |->
                          IF TicketExists(j) THEN StatusSet(tickets[j], "Closed")
                          ELSE tickets[j]]
         /\ Emit(StatusUpdated(ticketId, "Closed", sender))
         /\ last' = Call("closeTicket", sender, ticketId, <<>>, "ok", <<>>)
         /\ UNCHANGED <<userRoles, ticketComments, nextTicketId, nextCommentId>>

closeTicket(sender, ticketId) ==
    IF ~onlyManager(sender)
    THEN Revert("closeTicket", sender, ticketId, <<>>, "Not authorized: Manager only")
    ELSE IF ~TicketExists(ticketId)
    THEN Revert("closeTicket", sender, ticketId, <<>>, "Ticket does not exist")
    ELSE /\ tickets' = [tickets EXCEPT ![ticketId] = StatusSet(@, "Closed")]
         /\ Emit(StatusUpdated(ticketId, "Closed", sender))
         /\ last' = Call("closeTicket", sender, ticketId, <<>>, "ok", <<>>)
         /\ UNCHANGED <<userRoles, ticketComments, nextTicketId, nextCommentId>>

reopenTicket(sender, ticketId) ==
    IF ~onlyManager(sender)
    THEN Revert("reopenTicket", sender, ticketId, <<>>, "Not authorized: Manager only")
    ELSE IF ~TicketExists(ticketId)
    THEN Revert("reopenTicket", sender, ticketId, <<>>, "Ticket does not exist")
    ELSE IF ~MayReopen(ticketId)
    THEN Revert("reopenTicket", sender, ticketId, <<>>,
                "Only closed or resolved tickets can be reopened")
    ELSE /\ tickets' = [tickets EXCEPT ![ticketId] = Reopened(@)]
         /\ Emit(TicketReopened(ticketId, sender))
         /\ last' = Call("reopenTicket", sender, ticketId, <<>>, "ok", <<>>)
         /\ UNCHANGED <<userRoles, ticketComments, nextTicketId, nextCommentId>>

\* An addComment open to the ticket's creator, its assignee and Managers only.
addCommentByParticipants(sender, ticketId, content) ==
    IF ~TicketExists(ticketId)
    THEN Revert("addComment", sender, ticketId, <<content>>, "Ticket does not exist")
    ELSE IF ~MayUpdateStatus(sender, ticketId)
    THEN Revert("addComment", sender, ticketId, <<content>>, "Not authorized")
    ELSE IF ~ContentNonEmpty(content)
    THEN Revert("addComment", sender, ticketId, <<content>>, "Comment cannot be empty")
    ELSE /\ LET commentId == nextCommentId IN
             /\ nextCommentId' = nextCommentId + 1
             /\ ticketComments' = [ticketComments EXCEPT ![ticketId] =
                    Push(@, NewComment(commentId, ticketId, sender, content))]
             /\ Emit(CommentAdded(ticketId, commentId, sender))
             /\ last' = Call("addComment", sender, ticketId, <<content>>, "ok", <<>>)
         /\ UNCHANGED <<tickets, userRoles, nextTicketId>>

\* An addComment that reads the counter without incrementing it.
addCommentNoIncrement(sender, ticketId, content) ==
    IF ~TicketExists(ticketId)
    THEN Revert("addComment", sender, ticketId, <<content>>, "Ticket does not exist")
    ELSE IF ~ContentNonEmpty(content)
    THEN Revert("addComment", sender, ticketId, <<content>>, "Comment cannot be empty")
    ELSE /\ LET commentId == nextCommentId IN
             /\ nextCommentId' = nextCommentId
             /\ ticketComments' = [ticketComments EXCEPT ![ticketId] =
                    Push(@, NewComment(commentId, ticketId, sender, content))]
             /\ Emit(CommentAdded(ticketId, commentId, sender))
             /\ last' = Call("addComment", sender, ticketId, <<content>>, "ok", <<>>)
         /\ UNCHANGED <<tickets, userRoles, nextTicketId>>

addComment(sender, ticketId, content) ==
    IF ~TicketExists(ticketId)
    THEN Revert("addComment", sender, ticketId, <<content>>, "Ticket does not exist")
    ELSE IF ~ContentNonEmpty(content)
    THEN Revert("addComment", sender, ticketId, <<content>>, "Comment cannot be empty")
    ELSE /\ LET commentId == nextCommentId IN
             /\ nextCommentId' = nextCommentId + 1
             /\ ticketComments' = [ticketComments EXCEPT ![ticketId] =
                    Push(@, NewComment(commentId, ticketId, sender, content))]
             /\ Emit(CommentAdded(ticketId, commentId, sender))
             /\ last' = Call("addComment", sender, ticketId, <<content>>, "ok", <<>>)
         /\ UNCHANGED <<tickets, userRoles, nextTicketId>>

getTicketComments(sender, ticketId) ==
    IF ~TicketExists(ticketId)
    THEN Revert("getTicketComments", sender, ticketId, <<>>, "Ticket does not exist")
    ELSE /\ last' = Call("getTicketComments", sender, ticketId, <<>>, "ok",
                         ticketComments[ticketId])
         /\ UNCHANGED registry

\* A setUserRole that stores the role for every identity.
setUserRoleForAll(sender, user, role) ==
    IF ~onlyManager(sender)
    THEN Revert("setUserRole", sender, 0, <<user, role>>, "Not authorized: Manager only")
    ELSE /\ userRoles' = [a \in DOMAIN userRoles |-> role]
         /\ last' = Call("setUserRole", sender, 0, <<user, role>>, "ok", <<>>)
         /\ UNCHANGED <<tickets, ticketComments, nextTicketId, nextCommentId, events>>

setUserRole(sender, user, role) ==
    IF ~onlyManager(sender)
    THEN Revert("setUserRole", sender, 0, <<user, role>>, "Not authorized: Manager only")
    ELSE /\ userRoles' = [userRoles EXCEPT ![user] = role]
         /\ last' = Call("setUserRole", sender, 0, <<user, role>>, "ok", <<>>)
         /\ UNCHANGED <<tickets, ticketComments, nextTicketId, nextCommentId, events>>

getTicket(sender, ticketId) ==
    IF ~TicketExists(ticketId)
    THEN Revert("getTicket", sender, ticketId, <<>>, "Ticket does not exist")
    ELSE /\ last' = Call("getTicket", sender, ticketId, <<>>, "ok", <<tickets[ticketId]>>)
         /\ UNCHANGED registry

\* A getAllTickets whose loop reads the keys from 0.
getAllTicketsFromZero(sender) ==
    /\ LET count == nextTicketId - 1 IN
        last' = Call("getAllTickets", sender, 0, <<>>, "ok",
                     [i \in 1 .. count |-> tickets[i - 1]])
    /\ UNCHANGED registry

getAllTickets(sender) ==
    /\ LET count == nextTicketId - 1 IN
        last' = Call("getAllTickets", sender, 0, <<>>, "ok", [i \in 1 .. count |-> tickets[i]])
    /\ UNCHANGED registry

\* The caller has read the receipt of its last call (await tx.wait()) and the
\* next call can be made.
Ready == last = Idle

Acknowledge ==
    /\ last # Idle
    /\ last' = Idle
    /\ UNCHANGED <<registry, now, form, wallet>>

\* The ledger starts the next block: block.timestamp grows.
NextBlock ==
    /\ Ready
    /\ UNCHANGED <<form, wallet>>
    /\ now < MaxTime
    /\ now' = now + 1
    /\ UNCHANGED <<registry, last>>

\* The part of the state space explored: a call is followed while the counters
\* and the event log stay within the bounds.
Bounded ==
    /\ nextTicketId' <= MaxTickets + 1
    /\ nextCommentId' <= MaxComments + 1
    /\ Len(events') <= MaxEvents

\* One call of each external function, by any caller with any arguments, in the
\* block being built.
CreateTicket ==
    /\ Ready
    /\ UNCHANGED <<form, wallet>>
    /\ \E s \in Callers, t \in Titles, d \in Descriptions, h \in AttachmentHashes :
            createTicket(s, t, d, h)
    /\ now' = now
    /\ Bounded

UpdateStatus ==
    /\ Ready
    /\ UNCHANGED <<form, wallet>>
    /\ \E s \in Callers, i \in TicketIds, st \in TicketStatus : updateStatus(s, i, st)
    /\ now' = now
    /\ Bounded

AssignTicket ==
    /\ Ready
    /\ UNCHANGED <<form, wallet>>
    /\ \E s \in Callers, i \in TicketIds, a \in Addresses : assignTicket(s, i, a)
    /\ now' = now
    /\ Bounded

ResolveTicket ==
    /\ Ready
    /\ UNCHANGED <<form, wallet>>
    /\ \E s \in Callers, i \in TicketIds : resolveTicket(s, i)
    /\ now' = now
    /\ Bounded

CloseTicket ==
    /\ Ready
    /\ UNCHANGED <<form, wallet>>
    /\ \E s \in Callers, i \in TicketIds : closeTicket(s, i)
    /\ now' = now
    /\ Bounded

ReopenTicket ==
    /\ Ready
    /\ UNCHANGED <<form, wallet>>
    /\ \E s \in Callers, i \in TicketIds : reopenTicket(s, i)
    /\ now' = now
    /\ Bounded

AddComment ==
    /\ Ready
    /\ UNCHANGED <<form, wallet>>
    /\ \E s \in Callers, i \in TicketIds, c \in Contents : addComment(s, i, c)
    /\ now' = now
    /\ Bounded

GetTicketComments ==
    /\ Ready
    /\ UNCHANGED <<form, wallet>>
    /\ \E s \in Callers, i \in TicketIds : getTicketComments(s, i)
    /\ now' = now
    /\ Bounded

SetUserRole ==
    /\ Ready
    /\ UNCHANGED <<form, wallet>>
    /\ \E s \in Callers, u \in Callers, r \in UserRole : setUserRole(s, u, r)
    /\ now' = now
    /\ Bounded

GetTicket ==
    /\ Ready
    /\ UNCHANGED <<form, wallet>>
    /\ \E s \in Callers, i \in TicketIds : getTicket(s, i)
    /\ now' = now
    /\ Bounded

GetAllTickets ==
    /\ Ready
    /\ UNCHANGED <<form, wallet>>
    /\ \E s \in Callers : getAllTickets(s)
    /\ now' = now
    /\ Bounded

Next ==
    \/ CreateTicket
    \/ UpdateStatus
    \/ AssignTicket
    \/ ResolveTicket
    \/ CloseTicket
    \/ ReopenTicket
    \/ AddComment
    \/ GetTicketComments
    \/ SetUserRole
    \/ GetTicket
    \/ GetAllTickets
    \/ Acknowledge

\* Every call, accepted or rejected, and every read, in one block.
Spec == Init /\ [][Next]_vars

\* ------------------------------------------------------ the ledger clock
\* The accepted transactions that write a ticket, over several blocks, with the
\* block timestamp growing between them.  createTicket has no require, so every
\* call of it is one of them.
Accepted == last'.result = "ok"

ClockUpdateStatus == UpdateStatus /\ Accepted
ClockAssignTicket == AssignTicket /\ Accepted
ClockResolveTicket == ResolveTicket /\ Accepted
ClockCloseTicket == CloseTicket /\ Accepted
ClockReopenTicket == ReopenTicket /\ Accepted

NextClock ==
    \/ CreateTicket
    \/ ClockUpdateStatus
    \/ ClockAssignTicket
    \/ ClockResolveTicket
    \/ ClockCloseTicket
    \/ ClockReopenTicket
    \/ Acknowledge
    \/ NextBlock

SpecClock == Init /\ [][NextClock]_vars

\* ------------------------------------------------- the Manager lifecycle
\* One ticket taken through the Manager operations (assign, resolve, close,
\* reopen) by the deployer, with the calls a User makes rejected, one event
\* deeper than Spec goes, in one block.
LifecycleBounded ==
    /\ nextTicketId' <= MaxLifecycleTickets + 1
    /\ Len(events') <= MaxLifecycleEvents
    /\ now' = now

LifecycleCreate ==
    /\ Ready
    /\ UNCHANGED <<form, wallet>>
    /\ \E s \in Callers, t \in Titles, d \in Descriptions, h \in AttachmentHashes :
            createTicket(s, t, d, h)
    /\ LifecycleBounded

LifecycleAssign ==
    /\ Ready
    /\ UNCHANGED <<form, wallet>>
    /\ \E s \in Callers, i \in TicketIds, a \in Addresses : assignTicket(s, i, a)
    /\ LifecycleBounded

LifecycleResolve ==
    /\ Ready
    /\ UNCHANGED <<form, wallet>>
    /\ \E s \in Callers, i \in TicketIds : resolveTicket(s, i)
    /\ LifecycleBounded

LifecycleClose ==
    /\ Ready
    /\ UNCHANGED <<form, wallet>>
    /\ \E s \in Callers, i \in TicketIds : closeTicket(s, i)
    /\ LifecycleBounded

LifecycleReopen ==
    /\ Ready
    /\ UNCHANGED <<form, wallet>>
    /\ \E s \in Callers, i \in TicketIds : reopenTicket(s, i)
    /\ LifecycleBounded

NextLifecycle ==
    \/ LifecycleCreate
    \/ LifecycleAssign
    \/ LifecycleResolve
    \/ LifecycleClose
    \/ LifecycleReopen
    \/ Acknowledge

SpecLifecycle == Init /\ [][NextLifecycle]_vars

\* ------------------------------------------------ assignment and roles
\* The calls that write a ticket's assignee or a role, with those that lead to
\* them, by any caller in one block.
NextAssignment ==
    \/ CreateTicket
    \/ AssignTicket
    \/ ResolveTicket
    \/ ReopenTicket
    \/ SetUserRole
    \/ Acknowledge

SpecAssignment == Init /\ [][NextAssignment]_vars

\* ----------------------------------------------------- the comment threads
\* Tickets created and commented on by any caller, and their comments read, one
\* event deeper than Spec goes, in one block.
ThreadBounded ==
    /\ nextTicketId' <= MaxTickets + 1
    /\ nextCommentId' <= MaxComments + 1
    /\ Len(events') <= MaxThreadEvents
    /\ now' = now

ThreadCreateTicket ==
    /\ Ready
    /\ UNCHANGED <<form, wallet>>
    /\ \E s \in Callers, t \in Titles, d \in Descriptions, h \in AttachmentHashes :
            createTicket(s, t, d, h)
    /\ ThreadBounded

ThreadAddComment ==
    /\ Ready
    /\ UNCHANGED <<form, wallet>>
    /\ \E s \in Callers, i \in TicketIds, c \in Contents : addComment(s, i, c)
    /\ ThreadBounded

ThreadGetTicketComments ==
    /\ Ready
    /\ UNCHANGED <<form, wallet>>
    /\ \E s \in Callers, i \in TicketIds : getTicketComments(s, i)
    /\ ThreadBounded

NextThread ==
    \/ ThreadCreateTicket
    \/ ThreadAddComment
    \/ ThreadGetTicketComments
    \/ Acknowledge

SpecThread == Init /\ [][NextThread]_vars

\* ------------------------------------------------ the three-party scenario
\* A registry used by three identities: the deployer M, a second identity M2 and
\* a user A.  The calls are issued in the order of a ticket's life: role changes
\* on the fresh registry, then createTicket, assignTicket, resolveTicket,
\* reopenTicket, addComment, and at the end the reads; the next kind of call is
\* issued once the previous one has been accepted (its event is in the log).
\* Every call is tried by every identity, so that the rejected ones happen too.
ScenarioCallers == {"M", "M2", "A"}
ScenarioAddresses == ScenarioCallers \cup {ZERO}

InitScenario ==
    /\ tickets = [i \in TicketKeys |-> ZeroTicket]
    /\ userRoles = [a \in ScenarioAddresses |-> IF a = Deployer THEN "Manager" ELSE "User"]
    /\ ticketComments = [i \in TicketKeys |-> <<>>]
    /\ nextTicketId = 1
    /\ nextCommentId = 1
    /\ events = <<>>
    /\ now = 1
    /\ last = Idle
    /\ form = FormIdle
    /\ wallet = WalletIdle

\* k calls have been accepted and logged, and no receipt is waiting.
AtStep(k) == Ready /\ Len(events) = k

ScenarioSetUserRole ==
    /\ AtStep(0)
    /\ UNCHANGED <<form, wallet>>
    /\ \E s \in ScenarioCallers, u \in ScenarioCallers, r \in UserRole : setUserRole(s, u, r)
    /\ now' = now

ScenarioCreateTicket ==
    /\ AtStep(0)
    /\ UNCHANGED <<form, wallet>>
    /\ \E s \in ScenarioCallers, t \in Titles, d \in Descriptions, h \in AttachmentHashes :
            createTicket(s, t, d, h)
    /\ now' = now

ScenarioAssignTicket ==
    /\ AtStep(1)
    /\ UNCHANGED <<form, wallet>>
    /\ \E s \in ScenarioCallers, i \in TicketIds, a \in ScenarioAddresses :
            assignTicket(s, i, a)
    /\ now' = now

ScenarioResolveTicket ==
    /\ AtStep(2)
    /\ UNCHANGED <<form, wallet>>
    /\ \E s \in ScenarioCallers, i \in TicketIds : resolveTicket(s, i)
    /\ now' = now

ScenarioReopenTicket ==
    /\ AtStep(3)
    /\ UNCHANGED <<form, wallet>>
    /\ \E s \in ScenarioCallers, i \in TicketIds : reopenTicket(s, i)
    /\ now' = now

ScenarioAddComment ==
    /\ AtStep(4)
    /\ UNCHANGED <<form, wallet>>
    /\ \E s \in ScenarioCallers, i \in TicketIds, c \in Contents : addComment(s, i, c)
    /\ now' = now

ScenarioGetTicket ==
    /\ AtStep(5)
    /\ UNCHANGED <<form, wallet>>
    /\ \E s \in ScenarioCallers, i \in TicketIds : getTicket(s, i)
    /\ now' = now

ScenarioGetTicketComments ==
    /\ AtStep(5)
    /\ UNCHANGED <<form, wallet>>
    /\ \E s \in ScenarioCallers, i \in TicketIds : getTicketComments(s, i)
    /\ now' = now

NextScenario ==
    \/ ScenarioSetUserRole
    \/ ScenarioCreateTicket
    \/ ScenarioAssignTicket
    \/ ScenarioResolveTicket
    \/ ScenarioReopenTicket
    \/ ScenarioAddComment
    \/ ScenarioGetTicket
    \/ ScenarioGetTicketComments
    \/ Acknowledge

SpecScenario == InitScenario /\ [][NextScenario]_vars

\* ------------------------------------------- submitting the ticket form
\* handleSubmit of the ticket form, one action per stretch of it between two
\* awaits, run against the registry: the createTicket transaction it sends is
\* mined by the ledger (or runs out of its gas limit and reverts), and the form
\* waits for the receipt.  The form's buttons are disabled while it is
\* submitting, so a submission starts when the previous one has ended.
FormUser == "A"               \* the account of the connected wallet

\* A catch block that sends the transaction again after it failed.
CatchAndResend(f) ==
    IF f.sent > 0
    THEN [f EXCEPT !.pc = "signing"]
    ELSE [f EXCEPT !.pc = "idle", !.notice = "error", !.outcome = "failed",
                   !.isSubmitting = FALSE]

\* catch and finally of handleSubmit: the failure is reported, nothing is resent.
Catch(f) ==
    [f EXCEPT !.pc = "idle", !.notice = "error", !.outcome = "failed",
              !.isSubmitting = FALSE]

\* The start of submitTicket, up to the call of contract.createTicket.
EnterSubmitTicket(f) ==
    IF ~f.contract THEN Catch(f) ELSE [f EXCEPT !.pc = "signing"]

\* handleSubmit up to its first await: validation, the wallet check, and the
\* start of the description upload.
HandleSubmit ==
    /\ form.pc = "idle"
    /\ form.submissions < MaxSubmissions
    /\ \E valid \in BOOLEAN, connected \in BOOLEAN, contract \in BOOLEAN,
          attachment \in BOOLEAN :
          LET f == [FormIdle EXCEPT !.submissions = form.submissions + 1,
                                    !.valid = valid, !.connected = connected,
                                    !.contract = contract, !.attachment = attachment]
          IN  form' = IF ~valid
                      THEN [f EXCEPT !.outcome = "invalid"]
                      ELSE IF ~connected
                      THEN [f EXCEPT !.notice = "error", !.outcome = "notConnected"]
                      ELSE [f EXCEPT !.isSubmitting = TRUE, !.notice = "info",
                                     !.pc = "uploadDescription"]
    /\ UNCHANGED <<registry, now, last, wallet>>

\* await uploadTextToIPFS(...) returns the hash or throws.
UploadDescription ==
    /\ form.pc = "uploadDescription"
    /\ \E ok \in BOOLEAN, d \in Descriptions :
          form' = IF ~ok
                  THEN Catch(form)
                  ELSE LET f == [form EXCEPT !.descriptionHash = d] IN
                       IF f.attachment
                       THEN [f EXCEPT !.pc = "uploadAttachment"]
                       ELSE EnterSubmitTicket(f)
    /\ UNCHANGED <<registry, now, last, wallet>>

\* await handleIPFSUpload(formData.attachment) returns the hash or throws.
UploadAttachment ==
    /\ form.pc = "uploadAttachment"
    /\ \E ok \in BOOLEAN, h \in AttachmentHashes :
          form' = IF ~ok
                  THEN Catch(form)
                  ELSE EnterSubmitTicket([form EXCEPT !.attachmentHash = h])
    /\ UNCHANGED <<registry, now, last, wallet>>

\* await contract.createTicket(...): the wallet signs and sends the transaction,
\* or refuses and the call throws.
SubmitTicketSend ==
    /\ form.pc = "signing"
    /\ \E signed \in BOOLEAN :
          form' = IF ~signed
                  THEN Catch(form)
                  ELSE [form EXCEPT !.sent = @ + 1, !.pc = "pending"]
    /\ UNCHANGED <<registry, now, last, wallet>>

\* The ledger executes the transaction sent: createTicket runs, or the gas limit
\* given with it is used up and it reverts.
SubmitTicketMined ==
    /\ form.pc = "pending"
    /\ UNCHANGED wallet
    /\ Ready
    /\ \E gasSuffices \in BOOLEAN, t \in Titles :
          IF gasSuffices
          THEN createTicket(FormUser, t, form.descriptionHash, form.attachmentHash)
          ELSE Revert("createTicket", FormUser, 0,
                      <<t, form.descriptionHash, form.attachmentHash>>, "out of gas")
    /\ form' = [form EXCEPT !.pc = "waiting"]
    /\ now' = now
    /\ Bounded

\* await tx.wait() returns the receipt or throws; handleSubmit reports the
\* outcome and ends.
SubmitTicketWait ==
    /\ form.pc = "waiting"
    /\ last # Idle
    /\ form' = IF last.result = "ok"
                THEN [form EXCEPT !.pc = "idle", !.notice = "success",
                                  !.outcome = "submitted", !.isSubmitting = FALSE]
                ELSE Catch(form)
    /\ last' = Idle
    /\ UNCHANGED <<registry, now, wallet>>

NextForm ==
    \/ HandleSubmit
    \/ UploadDescription
    \/ UploadAttachment
    \/ SubmitTicketSend
    \/ SubmitTicketMined
    \/ SubmitTicketWait

SpecForm == Init /\ [][NextForm]_vars

\* ------------------------------------------------- connecting the wallet
\* connectWallet and disconnectWallet of the wallet context.  A connectWallet
\* call is one action per stretch between two awaits; several calls may be
\* awaiting at once, and disconnectWallet may run between any two stretches.
\* Within a stretch the state setters are applied one at a time, in the order
\* of the code, and no other handler runs between them.
WalletAccounts == Callers      \* what eth_requestAccounts may return first

ThreadFree == wallet.running = "none"

\* The connectWallet call made next.
NextCall == CHOOSE c \in ConnectCalls :
                /\ wallet.calls[c].pc = "unused"
                /\ \A d \in ConnectCalls : d < c => wallet.calls[d].pc # "unused"

\* A finally block that leaves isConnecting as it is.
FinallyKeepsConnecting(w, c, path) ==
    [w EXCEPT !.calls[c].pc = "done", !.calls[c].path = path]

\* The end of a connectWallet call: finally { setIsConnecting(false) }.
Finally(w, c, path) ==
    [w EXCEPT !.isConnecting = FALSE, !.calls[c].pc = "done", !.calls[c].path = path]

\* catch (error) { console.error(...) } followed by the finally block.
Thrown(w, c) == Finally(w, c, "thrown")

\* After the network switch: no account means nothing is set.
AfterSwitch(w, c) ==
    IF Len(w.calls[c].accounts) > 0
    THEN [w EXCEPT !.calls[c].pc = "getSigner"]
    ELSE Finally(w, c, "noAccounts")

\* The setters of a successful connection with setIsConnected(true) first.
ApplyConnectFlagFirst(w, c, k) ==
    CASE k = 1 -> [w EXCEPT !.isConnected = TRUE]
      [] k = 2 -> [w EXCEPT !.provider = c]
      [] k = 3 -> [w EXCEPT !.signer = c]
      [] k = 4 -> [w EXCEPT !.contract = c]
      [] k = 5 -> [w EXCEPT !.user = [address |-> w.calls[c].accounts[1],
                                      role |-> w.calls[c].role]]

\* The k-th setter of a successful connection: setProvider, setSigner,
\* setContract, setUser, setIsConnected(true).
ApplyConnect(w, c, k) ==
    CASE k = 1 -> [w EXCEPT !.provider = c]
      [] k = 2 -> [w EXCEPT !.signer = c]
      [] k = 3 -> [w EXCEPT !.contract = c]
      [] k = 4 -> [w EXCEPT !.user = [address |-> w.calls[c].accounts[1],
                                      role |-> w.calls[c].role]]
      [] k = 5 -> [w EXCEPT !.isConnected = TRUE]

\* The k-th setter of disconnectWallet.
ApplyDisconnect(w, k) ==
    CASE k = 1 -> [w EXCEPT !.isConnected = FALSE]
      [] k = 2 -> [w EXCEPT !.user = NoUser]
      [] k = 3 -> [w EXCEPT !.provider = 0]
      [] k = 4 -> [w EXCEPT !.signer = 0]
      [] k = 5 -> [w EXCEPT !.contract = 0]

\* The wallet extension injects window.ethereum into the page.
EthereumInjected ==
    /\ ThreadFree
    /\ ~wallet.ethereum
    /\ wallet' = [wallet EXCEPT !.ethereum = TRUE]
    /\ UNCHANGED <<registry, now, last, form>>

\* connectWallet up to its first await: without window.ethereum it alerts and
\* returns, otherwise it sets isConnecting and asks the wallet for its accounts.
ConnectWallet ==
    /\ ThreadFree
    /\ \E c \in ConnectCalls : wallet.calls[c].pc = "unused"
    /\ wallet' = IF ~wallet.ethereum
                 THEN [wallet EXCEPT !.calls[NextCall].pc = "done",
                                     !.calls[NextCall].path = "noEthereum"]
                 ELSE [wallet EXCEPT !.isConnecting = TRUE,
                                     !.calls[NextCall].pc = "requestAccounts"]
    /\ UNCHANGED <<registry, now, last, form>>

\* await eth_requestAccounts returns the accounts (possibly none) or throws.
AccountsReturned ==
    /\ ThreadFree
    /\ \E c \in ConnectCalls :
          /\ wallet.calls[c].pc = "requestAccounts"
          /\ \E ok \in BOOLEAN, accounts \in {<<>>} \cup {<<a>> : a \in WalletAccounts} :
                wallet' = IF ~ok
                          THEN Thrown(wallet, c)
                          ELSE [wallet EXCEPT !.calls[c].accounts = accounts,
                                              !.calls[c].pc = "switchChain"]
    /\ UNCHANGED <<registry, now, last, form>>

\* await wallet_switchEthereumChain returns or throws; the error is caught, and
\* code 4902 leads to wallet_addEthereumChain.
ChainSwitched ==
    /\ ThreadFree
    /\ \E c \in ConnectCalls :
          /\ wallet.calls[c].pc = "switchChain"
          /\ \E outcome \in {"switched", "4902", "refused"} :
                wallet' = IF outcome = "4902"
                          THEN [wallet EXCEPT !.calls[c].pc = "addChain"]
                          ELSE AfterSwitch(wallet, c)
    /\ UNCHANGED <<registry, now, last, form>>

\* await wallet_addEthereumChain returns or throws; the error is only logged.
ChainAdded ==
    /\ ThreadFree
    /\ \E c \in ConnectCalls :
          /\ wallet.calls[c].pc = "addChain"
          /\ wallet' = AfterSwitch(wallet, c)
    /\ UNCHANGED <<registry, now, last, form>>

\* await web3Provider.getSigner() returns or throws.
SignerReturned ==
    /\ ThreadFree
    /\ \E c \in ConnectCalls :
          /\ wallet.calls[c].pc = "getSigner"
          /\ \E ok \in BOOLEAN :
                wallet' = IF ok THEN [wallet EXCEPT !.calls[c].pc = "getBalance"]
                          ELSE Thrown(wallet, c)
    /\ UNCHANGED <<registry, now, last, form>>

\* await web3Provider.getBalance(address) returns or throws.
BalanceReturned ==
    /\ ThreadFree
    /\ \E c \in ConnectCalls :
          /\ wallet.calls[c].pc = "getBalance"
          /\ \E ok \in BOOLEAN :
                wallet' = IF ok THEN [wallet EXCEPT !.calls[c].pc = "getNetwork"]
                          ELSE Thrown(wallet, c)
    /\ UNCHANGED <<registry, now, last, form>>

\* await web3Provider.getNetwork() returns or throws; the artifact lists a
\* deployment for the network (or for 5777) or not, and without one the call
\* alerts, clears isConnecting and ends.
NetworkReturned ==
    /\ ThreadFree
    /\ \E c \in ConnectCalls :
          /\ wallet.calls[c].pc = "getNetwork"
          /\ \E ok \in BOOLEAN, deployedNetwork \in BOOLEAN :
                wallet' = IF ~ok
                          THEN Thrown(wallet, c)
                          ELSE IF deployedNetwork
                          THEN [wallet EXCEPT !.calls[c].pc = "getCode"]
                          ELSE Finally([wallet EXCEPT !.isConnecting = FALSE],
                                       c, "notDeployed")
    /\ UNCHANGED <<registry, now, last, form>>

\* await web3Provider.getCode(address) returns the code or throws; on '0x' the
\* call alerts, clears isConnecting and returns.
CodeReturned ==
    /\ ThreadFree
    /\ \E c \in ConnectCalls :
          /\ wallet.calls[c].pc = "getCode"
          /\ \E ok \in BOOLEAN, code \in {"0x", "0x6080"} :
                wallet' = IF ~ok
                          THEN Thrown(wallet, c)
                          ELSE IF code = "0x"
                          THEN Finally([wallet EXCEPT !.isConnecting = FALSE],
                                       c, "codeMissing")
                          ELSE [wallet EXCEPT !.calls[c].pc = "userRoles"]
    /\ UNCHANGED <<registry, now, last, form>>

\* await blockDeskContract.userRoles(address) returns the role stored by the
\* registry (index 1 is MANAGER) or throws, which leaves USER; the call then
\* starts to set the connection.
RoleReturned ==
    /\ ThreadFree
    /\ \E c \in ConnectCalls :
          /\ wallet.calls[c].pc = "userRoles"
          /\ \E ok \in BOOLEAN :
                LET role == IF ok /\ userRoles[wallet.calls[c].accounts[1]] = "Manager"
                            THEN "MANAGER" ELSE "USER"
                IN  wallet' = [wallet EXCEPT !.calls[c].role = role,
                                             !.calls[c].pc = "connecting",
                                             !.running = "connectWallet",
                                             !.runner = c, !.step = 1]
    /\ UNCHANGED <<registry, now, last, form>>

\* The next setter of the connection being set; after setIsConnected(true) the
\* finally block ends the call.
ConnectSet ==
    /\ wallet.running = "connectWallet"
    /\ wallet' = IF wallet.step <= 5
                 THEN [ApplyConnect(wallet, wallet.runner, wallet.step)
                          EXCEPT !.step = wallet.step + 1]
                 ELSE [Finally(wallet, wallet.runner, "success")
                          EXCEPT !.running = "none", !.runner = 0, !.step = 0]
    /\ UNCHANGED <<registry, now, last, form>>

\* disconnectWallet starts: setIsConnected(false).
DisconnectWallet ==
    /\ ThreadFree
    /\ wallet' = [ApplyDisconnect(wallet, 1)
                     EXCEPT !.running = "disconnectWallet", !.step = 2]
    /\ UNCHANGED <<registry, now, last, form>>

\* The next setter of disconnectWallet; setContract(null) is the last.
DisconnectSet ==
    /\ wallet.running = "disconnectWallet"
    /\ wallet' = IF wallet.step < 5
                 THEN [ApplyDisconnect(wallet, wallet.step)
                          EXCEPT !.step = wallet.step + 1]
                 ELSE [ApplyDisconnect(wallet, wallet.step)
                          EXCEPT !.running = "none", !.step = 0]
    /\ UNCHANGED <<registry, now, last, form>>

NextWallet ==
    \/ EthereumInjected
    \/ ConnectWallet
    \/ AccountsReturned
    \/ ChainSwitched
    \/ ChainAdded
    \/ SignerReturned
    \/ BalanceReturned
    \/ NetworkReturned
    \/ CodeReturned
    \/ RoleReturned
    \/ ConnectSet
    \/ DisconnectWallet
    \/ DisconnectSet

SpecWallet == Init /\ [][NextWallet]_vars

\* ------------------------------------------------ the wallet's accounts
\* The wallet context with the wallet's own state: the first account the
\* wallet exposes changes when its user switches, locks or unlocks it, and
\* eth_requestAccounts returns the accounts of the moment.  The effect of
\* Web3Provider keeps a listener for accountsChanged registered while
\* window.ethereum exists and isConnected holds; the listener sees the user of
\* the render that registered it.

\* String.prototype.toLowerCase on the spellings of the accounts.
toLowerCase(x) ==
    CASE x = "A" -> "a"
      [] x = "M" -> "m"
      [] OTHER -> x

\* The spellings under which the wallet may report an account.
Spellings(a) == {a, toLowerCase(a)}

\* What eth_requestAccounts returns now.
CurrentAccounts == IF wallet.account = ZERO THEN <<>> ELSE <<wallet.account>>

\* The effect has registered handleAccountsChanged.
ListenerRegistered == wallet.ethereum /\ wallet.isConnected

\* The test of handleAccountsChanged: no account, or a first account that is
\* not the user's when both are written in lower case.
MustDisconnect(accounts, user) ==
    \/ Len(accounts) = 0
    \/ /\ user # NoUser
       /\ toLowerCase(accounts[1]) # toLowerCase(user.address)

\* handleAccountsChanged(accounts): disconnectWallet starts, or nothing happens.
handleAccountsChanged(w, accounts) ==
    LET h == [w EXCEPT !.heard = [any |-> TRUE, tick |-> 1 - w.heard.tick,
                                  accounts |-> accounts]]
    IN  IF MustDisconnect(accounts, w.user)
        THEN [ApplyDisconnect(h, 1) EXCEPT !.running = "disconnectWallet", !.step = 2]
        ELSE h

\* The wallet's first account becomes b (none when the wallet is locked or the
\* site's permission is withdrawn), or the account list changes behind the same
\* first account; the wallet emits accountsChanged, which the listener, if
\* registered, handles.
AccountsChanged ==
    /\ ThreadFree
    /\ wallet.ethereum
    /\ \E b \in WalletAccounts \cup {ZERO} :
          LET w == [wallet EXCEPT !.account = b] IN
          \E accounts \in (IF b = ZERO THEN {<<>>} ELSE {<<x>> : x \in Spellings(b)}) :
              wallet' = IF ListenerRegistered
                        THEN handleAccountsChanged(w, accounts)
                        ELSE w
    /\ UNCHANGED <<registry, now, last, form>>

\* await eth_requestAccounts returns the wallet's accounts of the moment, or
\* throws.
WalletAccountsReturned ==
    /\ AccountsReturned
    /\ \A c \in ConnectCalls :
          (wallet.calls[c].pc = "requestAccounts" /\ wallet'.calls[c].pc = "switchChain")
              => wallet'.calls[c].accounts = CurrentAccounts

NextAccounts ==
    \/ EthereumInjected
    \/ AccountsChanged
    \/ ConnectWallet
    \/ WalletAccountsReturned
    \/ ChainSwitched
    \/ ChainAdded
    \/ SignerReturned
    \/ BalanceReturned
    \/ NetworkReturned
    \/ CodeReturned
    \/ RoleReturned
    \/ ConnectSet
    \/ DisconnectWallet
    \/ DisconnectSet

SpecAccounts == Init /\ [][NextAccounts]_vars

\* ------------------------------------------------ the client as a whole
\* The wallet context and the ticket form side by side: the handlers of both
\* run in any order, each stretch between two awaits at a time.
CallsMade == Cardinality({c \in ConnectCalls : wallet.calls[c].pc # "unused"})

ClientConnectWallet ==
    /\ CallsMade < MaxClientConnects
    /\ ConnectWallet

ClientHandleSubmit ==
    /\ form.submissions < MaxClientSubmissions
    /\ HandleSubmit

NextClient ==
    \/ EthereumInjected
    \/ ClientConnectWallet
    \/ AccountsReturned
    \/ ChainSwitched
    \/ ChainAdded
    \/ SignerReturned
    \/ BalanceReturned
    \/ NetworkReturned
    \/ CodeReturned
    \/ RoleReturned
    \/ ConnectSet
    \/ DisconnectWallet
    \/ DisconnectSet
    \/ ClientHandleSubmit
    \/ UploadDescription
    \/ UploadAttachment
    \/ SubmitTicketSend
    \/ SubmitTicketMined
    \/ SubmitTicketWait

SpecClient == Init /\ [][NextClient]_vars

\* ================================================================= claims
\* The rejections of the contract, by the kinds the specification names.
NotFound == "Ticket does not exist"
UnauthorizedManagerOnly == "Not authorized: Manager only"
UnauthorizedUpdater == "Not authorized"
InvalidAssignee == "Can only assign to Managers"
InvalidReopen == "Only closed or resolved tickets can be reopened"
InvalidComment == "Comment cannot be empty"

ManagerOps == {"assignTicket", "resolveTicket", "closeTicket", "reopenTicket", "setUserRole"}
MutatingIdOps ==
    {"updateStatus", "assignTicket", "resolveTicket", "closeTicket", "reopenTicket", "addComment"}
IdOps == MutatingIdOps \cup {"getTicket", "getTicketComments"}
Terminal == {"Closed", "Resolved"}

\* A step that is a call: last' is its receipt, the unprimed state is the state
\* it was made in.
IsCall == last = Idle /\ last' # Idle

\* The id names no ticket: it is 0 or was never issued.
Absent(ticketId) == ticketId = 0 \/ ticketId >= nextTicketId

\* The number of tickets created so far, counted in the event log.
CreatedCount == Cardinality({j \in DOMAIN events : events[j].name = "TicketCreated"})

\* ------------------------------------------------------------------- C1
\* The condition under which the call last' is to be rejected, read in the state
\* before the call: ticket not found, caller unauthorized, assignee not a Manager,
\* reopen of a non-terminal ticket, empty comment.
MustReject ==
    LET c == last' IN
    \/ c.op \in IdOps /\ Absent(c.ticketId)
    \/ c.op \in ManagerOps /\ userRoles[c.sender] # "Manager"
    \/ /\ c.op = "updateStatus"
       /\ tickets[c.ticketId].creator # c.sender
       /\ tickets[c.ticketId].assignedTo # c.sender
       /\ userRoles[c.sender] # "Manager"
    \/ c.op = "assignTicket" /\ userRoles[c.args[1]] # "Manager"
    \/ c.op = "reopenTicket" /\ tickets[c.ticketId].status \notin Terminal
    \/ c.op = "addComment" /\ c.args[1] = ""

\* C1: a call that is to be rejected (ticket not found, caller unauthorized,
\* assignee not a Manager, reopen of a non-terminal ticket, empty comment) is
\* rejected, and a rejected call leaves every ticket, every comment list, the
\* role table, nextTicketId, nextCommentId and the event log as they were.
C1_RejectedCallChangesNothing ==
    [][IsCall =>
        /\ (MustReject => last'.result # "ok")
        /\ (last'.result # "ok" => UNCHANGED registry)]_vars

\* A rejected empty comment on a registry that holds two tickets and a comment.
C1_Witness ==
    /\ last.op = "addComment"
    /\ last.result = InvalidComment
    /\ nextTicketId = 3
    /\ nextCommentId = 2
    /\ Len(events) = 3

\* ------------------------------------------------------------------- C2
\* C2: assignTicket, resolveTicket, closeTicket, reopenTicket and setUserRole
\* called by a caller whose role is User are rejected and change nothing.
C2_ManagerOnly ==
    [][(IsCall /\ last'.op \in ManagerOps /\ userRoles[last'.sender] = "User") =>
        /\ last'.result = UnauthorizedManagerOnly
        /\ UNCHANGED registry]_vars

\* The deployer, demoted to User, is refused a role change on an existing ticket's
\* registry.
C2_Witness ==
    /\ last.op = "setUserRole"
    /\ last.sender = Deployer
    /\ last.result = UnauthorizedManagerOnly
    /\ userRoles[Deployer] = "User"
    /\ nextTicketId > 1

\* ------------------------------------------------------------------- C3
\* C3: updateStatus(id, s) on an existing ticket succeeds and sets the status
\* when the caller is the ticket's creator, its current assignee or a Manager,
\* and fails with the Unauthorized rejection otherwise.
C3_UpdateStatusAuthorization ==
    [][(IsCall /\ last'.op = "updateStatus" /\ ~Absent(last'.ticketId)) =>
        LET i == last'.ticketId
            s == last'.sender
            allowed == \/ tickets[i].creator = s
                       \/ tickets[i].assignedTo = s
                       \/ userRoles[s] = "Manager"
        IN  /\ allowed => (last'.result = "ok" /\ tickets'[i].status = last'.args[1])
            /\ ~allowed => (last'.result = UnauthorizedUpdater /\ UNCHANGED registry)]_vars

\* The assignee, who is neither the creator nor (any longer) a Manager, updates
\* the status.
C3_Witness ==
    /\ last.op = "updateStatus"
    /\ last.result = "ok"
    /\ tickets[last.ticketId].assignedTo = last.sender
    /\ tickets[last.ticketId].creator # last.sender
    /\ userRoles[last.sender] = "User"

\* A User who is neither creator nor assignee is refused.
C3_WitnessRefused ==
    /\ last.op = "updateStatus"
    /\ last.result = UnauthorizedUpdater

\* ------------------------------------------------------------------- C4
\* C4: reopenTicket succeeds only from Closed or Resolved, and then the status
\* becomes Open and the assignee the zero address; called by a Manager on an
\* existing ticket it succeeds from Closed and Resolved and is rejected as an
\* invalid argument from Open and InProgress.
C4_Reopen ==
    [][(IsCall /\ last'.op = "reopenTicket") =>
        LET i == last'.ticketId IN
        /\ last'.result = "ok" =>
              /\ tickets[i].status \in Terminal
              /\ tickets'[i].status = "Open"
              /\ tickets'[i].assignedTo = ZERO
        /\ (~Absent(i) /\ tickets[i].status \notin Terminal) => last'.result # "ok"
        /\ (~Absent(i) /\ userRoles[last'.sender] = "Manager") =>
              IF tickets[i].status \in Terminal
              THEN last'.result = "ok"
              ELSE last'.result = InvalidReopen /\ UNCHANGED registry]_vars

\* A ticket that was assigned and then resolved has been reopened.
C4_Witness ==
    /\ last.op = "reopenTicket"
    /\ last.result = "ok"
    /\ Len(events) = 4
    /\ events[2].name = "TicketAssigned"
    /\ events[2].assignee # ZERO
    /\ events[3].name = "StatusUpdated"
    /\ events[3].status = "Resolved"
    /\ events[4].name = "TicketReopened"
    /\ tickets[last.ticketId].status = "Open"
    /\ tickets[last.ticketId].assignedTo = ZERO

\* ------------------------------------------------------------------- C5
\* C5: assignTicket(id, who), called by a Manager on an existing ticket, fails
\* as an invalid argument when who is not a Manager, and otherwise succeeds,
\* sets the assignee to who and the status to InProgress, whatever the status
\* was.
C5_Assign ==
    [][(IsCall /\ last'.op = "assignTicket" /\ ~Absent(last'.ticketId)
            /\ userRoles[last'.sender] = "Manager") =>
        LET i == last'.ticketId
            who == last'.args[1]
        IN  IF userRoles[who] # "Manager"
            THEN last'.result = InvalidAssignee /\ UNCHANGED registry
            ELSE /\ last'.result = "ok"
                 /\ tickets'[i].assignedTo = who
                 /\ tickets'[i].status = "InProgress"]_vars

\* A Closed ticket has been assigned and is InProgress.
C5_Witness ==
    /\ last.op = "assignTicket"
    /\ last.result = "ok"
    /\ Len(events) = 3
    /\ events[2].name = "StatusUpdated"
    /\ events[2].status = "Closed"
    /\ events[2].ticketId = last.ticketId
    /\ events[3].name = "TicketAssigned"
    /\ tickets[last.ticketId].status = "InProgress"
    /\ tickets[last.ticketId].assignedTo = last.args[1]

\* ------------------------------------------------------------------- C6
\* C6: the k-th successful createTicket returns id k, greater than every id
\* issued before, and the ticket stored under it is Open, unassigned, created by
\* the caller, with createdAt = updatedAt = the time of the call; createTicket
\* succeeds for every caller.
C6_CreateTicket ==
    last.op = "createTicket" =>
        LET k == CreatedCount IN
        /\ last.result = "ok"
        /\ last.ret = <<k>>
        /\ \A j \in 1 .. (Len(events) - 1) :
              events[j].name = "TicketCreated" => events[j].ticketId < k
        /\ tickets[k].id = k
        /\ tickets[k].status = "Open"
        /\ tickets[k].assignedTo = ZERO
        /\ tickets[k].creator = last.sender
        /\ tickets[k].createdAt = last.at
        /\ tickets[k].updatedAt = last.at

\* A User creates the second ticket, in the second block.
C6_Witness ==
    /\ last.op = "createTicket"
    /\ last.ret = <<2>>
    /\ userRoles[last.sender] = "User"
    /\ last.at = 2

\* ------------------------------------------------------------------- C7
\* C7: addComment with empty content fails, on an existing ticket as an invalid
\* argument; with non-empty content on an existing ticket it appends exactly one
\* Comment (author the caller, ticketId the id, the content given, a fresh id)
\* at the end of the ticket's list and keeps every earlier comment in place.
C7_AddComment ==
    [][(IsCall /\ last'.op = "addComment") =>
        LET i == last'.ticketId
            content == last'.args[1]
            before == ticketComments[i]
            after == ticketComments'[i]
        IN  /\ content = "" => last'.result # "ok" /\ UNCHANGED registry
            /\ (content = "" /\ ~Absent(i)) => last'.result = InvalidComment
            /\ (content # "" /\ ~Absent(i)) =>
                  /\ last'.result = "ok"
                  /\ Len(after) = Len(before) + 1
                  /\ \A j \in 1 .. Len(before) : after[j] = before[j]
                  /\ after[Len(after)].author = last'.sender
                  /\ after[Len(after)].ticketId = i
                  /\ after[Len(after)].content = content
                  /\ \A t \in TicketIds : \A j \in 1 .. Len(ticketComments[t]) :
                        ticketComments[t][j].id # after[Len(after)].id]_vars

\* A second comment has been appended behind the first.
C7_Witness ==
    /\ last.op = "addComment"
    /\ last.result = "ok"
    /\ Len(ticketComments[last.ticketId]) = 2
    /\ ticketComments[last.ticketId][2].author = last.sender

\* ------------------------------------------------------------------- C8
\* C8: at least one identity holds the Manager role in every reachable state.
C8_SomeManager == \E a \in DOMAIN userRoles : userRoles[a] = "Manager"

\* ------------------------------------------------------------------- C9
\* C9 as stated: only reopenTicket takes a Closed or Resolved ticket to Open or
\* InProgress.
C9_OnlyReopenLeavesTerminal ==
    [][\A i \in TicketIds :
        (/\ tickets[i].id # 0
         /\ tickets[i].status \in Terminal
         /\ tickets'[i].status \in {"Open", "InProgress"}) =>
            last'.op = "reopenTicket" /\ last'.ticketId = i]_vars

\* C9 as amended: a Closed or Resolved ticket becomes Open or InProgress only by
\* a reopenTicket, updateStatus or assignTicket call on that ticket; no other
\* operation takes it out of its terminal status to Open or InProgress.
C9_LeavesTerminalOnlyBy ==
    [][\A i \in TicketIds :
        (/\ tickets[i].id # 0
         /\ tickets[i].status \in Terminal
         /\ tickets'[i].status \in {"Open", "InProgress"}) =>
            /\ last'.op \in {"reopenTicket", "updateStatus", "assignTicket"}
            /\ last'.ticketId = i
            /\ last'.result = "ok"
            /\ last'.op = "updateStatus" => last'.args[1] = tickets'[i].status
            /\ last'.op = "assignTicket" => tickets'[i].status = "InProgress"
            /\ last'.op = "reopenTicket" => tickets'[i].status = "Open"]_vars

\* A Closed ticket has been set back to Open by updateStatus.
C9_Witness ==
    /\ last.op = "updateStatus"
    /\ last.result = "ok"
    /\ Len(events) = 3
    /\ events[2].name = "StatusUpdated"
    /\ events[2].status = "Closed"
    /\ events[2].ticketId = last.ticketId
    /\ tickets[last.ticketId].status = "Open"

\* ------------------------------------------------------------------ C10
\* C10 as stated: every operation that takes a ticket id fails with NotFound
\* when the id is 0 or >= nextTicketId, for every caller and argument.
C10_AbsentIdIsNotFound ==
    (last.op \in IdOps /\ Absent(last.ticketId)) => last.result = NotFound

\* C10 as amended: with an id that is 0 or >= nextTicketId every such operation
\* is rejected; the rejection is NotFound for updateStatus, addComment, getTicket
\* and getTicketComments with every caller, and for assignTicket, resolveTicket,
\* closeTicket and reopenTicket when the caller is a Manager; a caller who is not
\* a Manager gets the Manager-only Unauthorized rejection from those four.
C10_AbsentIdRejected ==
    (last.op \in IdOps /\ Absent(last.ticketId)) =>
        IF last.op \in ManagerOps /\ userRoles[last.sender] # "Manager"
        THEN last.result = UnauthorizedManagerOnly
        ELSE last.result = NotFound

\* A Manager's closeTicket on the id after the last one issued is NotFound.
C10_Witness ==
    /\ last.op = "closeTicket"
    /\ last.ticketId = nextTicketId
    /\ nextTicketId = 2
    /\ userRoles[last.sender] = "Manager"
    /\ last.result = NotFound

\* ------------------------------------------------------------------ C11
\* The calls that write a ticket or a comment, and all the calls that write.
TicketWriteOps == MutatingIdOps \cup {"createTicket"}
MutatingOps == TicketWriteOps \cup {"setUserRole"}

\* The log after the step is the log before it with exactly one event appended.
OneEventAppended ==
    /\ Len(events') = Len(events) + 1
    /\ SubSeq(events', 1, Len(events)) = events

\* C11 as stated: every successful mutating call, setUserRole included, appends
\* exactly one event, a rejected call appends none, and the events already in
\* the log are never changed or removed.
C11_OneEventPerMutatingCall ==
    [][/\ (IsCall /\ last'.result = "ok" /\ last'.op \in MutatingOps) => OneEventAppended
       /\ (IsCall /\ last'.result # "ok") => events' = events
       /\ SubSeq(events', 1, Len(events)) = events]_vars

\* C11 as amended: every successful createTicket, updateStatus, assignTicket,
\* resolveTicket, closeTicket, reopenTicket and addComment appends exactly one
\* event, of the kind of the call; a successful setUserRole, a read and a
\* rejected call append none; no step changes or removes an event of the log.
C11_OneEventPerTicketCall ==
    [][/\ (IsCall /\ last'.result = "ok" /\ last'.op \in TicketWriteOps) =>
            /\ OneEventAppended
            /\ events'[Len(events')].name =
                  CASE last'.op = "createTicket" -> "TicketCreated"
                    [] last'.op = "assignTicket" -> "TicketAssigned"
                    [] last'.op = "reopenTicket" -> "TicketReopened"
                    [] last'.op = "addComment" -> "CommentAdded"
                    [] OTHER -> "StatusUpdated"
       /\ (IsCall /\ last'.result = "ok" /\ last'.op \notin TicketWriteOps) => events' = events
       /\ (IsCall /\ last'.result # "ok") => events' = events
       /\ ~IsCall => events' = events]_vars

\* A comment's event is the third of the log, behind the events of a creation
\* and a status change, and A has been made a Manager without an event.
C11_Witness ==
    /\ last.op = "addComment"
    /\ last.result = "ok"
    /\ Len(events) = 3
    /\ events[1].name = "TicketCreated"
    /\ events[2].name = "StatusUpdated"
    /\ events[3] = CommentAdded(last.ticketId, 1, last.sender)
    /\ userRoles["A"] = "Manager"

\* ------------------------------------------------------------------ C12
\* Every id createTicket has returned, and every id below the counter, still
\* names a ticket record with that id, and a getTicket of it has succeeded with
\* that record.
TicketsKept ==
    /\ \A j \in DOMAIN events :
          events[j].name = "TicketCreated" =>
              tickets[events[j].ticketId].id = events[j].ticketId
    /\ \A k \in 1 .. (nextTicketId - 1) : tickets[k].id = k
    /\ (last.op = "getTicket" /\ last.ticketId \in 1 .. (nextTicketId - 1)) =>
          /\ last.result = "ok"
          /\ last.ret = <<tickets[last.ticketId]>>
          /\ last.ret[1].id = last.ticketId

\* C12: tickets are never deleted: once createTicket has returned id k, in every
\* later state getTicket(k) succeeds and returns a record with id k, and
\* nextTicketId never decreases.
C12_TicketsNeverDeleted == []TicketsKept /\ [][nextTicketId' >= nextTicketId]_vars

\* The first of two tickets is read after it was closed.
C12_Witness ==
    /\ last.op = "getTicket"
    /\ last.ticketId = 1
    /\ last.result = "ok"
    /\ last.ret[1].id = 1
    /\ last.ret[1].status = "Closed"
    /\ nextTicketId = 3

\* ------------------------------------------------------------------ C13
\* Every ticket's comment list before the step is a prefix of its list after it.
CommentsExtended ==
    \A i \in TicketKeys :
        /\ Len(ticketComments'[i]) >= Len(ticketComments[i])
        /\ SubSeq(ticketComments'[i], 1, Len(ticketComments[i])) = ticketComments[i]

\* Every list holds its ticket's comments in the order they were inserted (the
\* comment ids, handed out in insertion order, grow along the list), and a
\* getTicketComments has returned the list as it is stored.
CommentsInInsertionOrder ==
    /\ \A i \in TicketKeys : \A j \in 1 .. Len(ticketComments[i]) :
          /\ ticketComments[i][j].ticketId = i
          /\ \A k \in 1 .. (j - 1) : ticketComments[i][k].id < ticketComments[i][j].id
    /\ (last.op = "getTicketComments" /\ last.result = "ok") =>
          last.ret = ticketComments[last.ticketId]

\* C13: comments are append-only per ticket: over every operation a ticket's
\* comment list before it is a prefix of the list after it (no comment is
\* edited, reordered or removed), and getTicketComments returns the comments in
\* insertion order.
C13_CommentsAppendOnly == [][CommentsExtended]_vars /\ []CommentsInInsertionOrder

\* A read returns two comments of one ticket, the older one first.
C13_Witness ==
    /\ last.op = "getTicketComments"
    /\ last.result = "ok"
    /\ Len(last.ret) = 2
    /\ last.ret[1].id = 1
    /\ last.ret[2].id = 2

\* ------------------------------------------------------------------ C14
IsCommentAdded(e) == e.name = "CommentAdded"

\* The n-th CommentAdded event of the log carries comment id n, the comment
\* stored for it has that id, and the counter is one past the last id issued.
CommentIdsCounted ==
    LET added == SelectSeq(events, IsCommentAdded) IN
    /\ nextCommentId = Len(added) + 1
    /\ \A n \in 1 .. Len(added) :
          /\ added[n].commentId = n
          /\ \E j \in 1 .. Len(ticketComments[added[n].ticketId]) :
                /\ ticketComments[added[n].ticketId][j].id = n
                /\ ticketComments[added[n].ticketId][j].author = added[n].author

\* C14: comment ids come from one counter that starts at 1 and is independent
\* of the ticket id counter: the n-th successful addComment over all tickets
\* together gets id n, createTicket never changes nextCommentId and addComment
\* never changes nextTicketId.
C14_CommentCounter ==
    /\ []CommentIdsCounted
    /\ [][/\ (IsCall /\ last'.op = "createTicket") => nextCommentId' = nextCommentId
          /\ (IsCall /\ last'.op = "addComment") => nextTicketId' = nextTicketId]_vars

\* The first comment was added to the second ticket and the second comment to
\* the first ticket.
C14_Witness ==
    /\ last.op = "addComment"
    /\ last.result = "ok"
    /\ nextTicketId = 3
    /\ nextCommentId = 3
    /\ Len(ticketComments[1]) = 1
    /\ ticketComments[1][1].id = 2
    /\ Len(ticketComments[2]) = 1
    /\ ticketComments[2][1].id = 1

\* ------------------------------------------------------------------ C15
\* The step leaves the fields written at creation of every existing ticket alone.
CreationFieldsKept ==
    \A i \in TicketKeys :
        tickets[i].id # 0 =>
            /\ tickets'[i].id = tickets[i].id
            /\ tickets'[i].creator = tickets[i].creator
            /\ tickets'[i].title = tickets[i].title
            /\ tickets'[i].description = tickets[i].description
            /\ tickets'[i].attachmentHash = tickets[i].attachmentHash
            /\ tickets'[i].createdAt = tickets[i].createdAt

\* Every ticket still carries the id, creator and title its TicketCreated event
\* recorded, and was not created after its last update.
CreationFieldsAsCreated ==
    \A j \in DOMAIN events :
        events[j].name = "TicketCreated" =>
            LET t == tickets[events[j].ticketId] IN
            /\ t.id = events[j].ticketId
            /\ t.creator = events[j].creator
            /\ t.title = events[j].title
            /\ t.description \in Descriptions
            /\ t.attachmentHash \in AttachmentHashes
            /\ t.createdAt <= t.updatedAt

\* C15: no operation changes the id, creator, title, description, attachment
\* reference or createdAt of an existing ticket; after any sequence of
\* operations they are the values its createTicket call wrote.
C15_CreationFieldsImmutable == [][CreationFieldsKept]_vars /\ []CreationFieldsAsCreated

\* A ticket A created in the first block has been reopened by the Manager in the
\* second block.
C15_Witness ==
    /\ last.op = "reopenTicket"
    /\ last.result = "ok"
    /\ last.sender # tickets[last.ticketId].creator
    /\ tickets[last.ticketId].creator = "A"
    /\ tickets[last.ticketId].createdAt = 1
    /\ tickets[last.ticketId].updatedAt = 2

\* ------------------------------------------------------------------ C16
\* C16: an identity's role changes only by a successful setUserRole call whose
\* caller is a Manager when it is made, and that call changes only the entry of
\* the identity it addresses, to the role it names; no ticket or comment
\* operation changes a role.
C16_RoleChangesOnlyBySetUserRole ==
    [][\A a \in DOMAIN userRoles :
        userRoles'[a] # userRoles[a] =>
            /\ IsCall
            /\ last'.op = "setUserRole"
            /\ last'.result = "ok"
            /\ userRoles[last'.sender] = "Manager"
            /\ last'.args[1] = a
            /\ userRoles'[a] = last'.args[2]
            /\ UNCHANGED <<tickets, ticketComments, nextTicketId, nextCommentId>>]_vars

\* A, made a Manager by the deployer, has demoted the deployer and is still a
\* Manager.
C16_Witness ==
    /\ last.op = "setUserRole"
    /\ last.result = "ok"
    /\ last.sender = "A"
    /\ last.args = <<Deployer, "User">>
    /\ userRoles[Deployer] = "User"
    /\ userRoles["A"] = "Manager"
    /\ nextTicketId > 1

\* ------------------------------------------------------------------ C17
\* After the constructor the deployer is a Manager and nobody else is.
DeployerOnlyManager ==
    \A a \in DOMAIN userRoles : userRoles[a] = "Manager" <=> a = Deployer

\* The step is a successful setUserRole that addresses a.
SetsRoleOf(a) ==
    /\ IsCall
    /\ last'.op = "setUserRole"
    /\ last'.result = "ok"
    /\ last'.args[1] = a

ScenarioCalls ==
    << [op |-> "createTicket", sender |-> "A", ticketId |-> 1,
        args |-> <<"Printer jam", "QmDesc", "QmFile">>],
       [op |-> "assignTicket", sender |-> "M", ticketId |-> 1, args |-> <<"M2">>],
       [op |-> "resolveTicket", sender |-> "M2", ticketId |-> 1, args |-> <<>>],
       [op |-> "reopenTicket", sender |-> "M", ticketId |-> 1, args |-> <<>>],
       [op |-> "addComment", sender |-> "A", ticketId |-> 1, args |-> <<"still broken">>] >>

ScenarioLog ==
    << TicketCreated(1, "A", "Printer jam"),
       TicketAssigned(1, "M2", "M"),
       StatusUpdated(1, "Resolved", "M2"),
       TicketReopened(1, "M"),
       CommentAdded(1, 1, "A") >>

ScenarioManagers == userRoles["M"] = "Manager" /\ userRoles["M2"] = "Manager"

\* The step is the k-th call of the scenario, made after the first k - 1.
IsScenarioCall(k) ==
    /\ IsCall
    /\ ScenarioManagers
    /\ events = SubSeq(ScenarioLog, 1, k - 1)
    /\ last'.op = ScenarioCalls[k].op
    /\ last'.sender = ScenarioCalls[k].sender
    /\ last'.ticketId = ScenarioCalls[k].ticketId
    /\ last'.args = ScenarioCalls[k].args

\* Each call of the scenario is accepted and logs its event.
ScenarioStepsSucceed ==
    \A k \in 1 .. Len(ScenarioCalls) :
        IsScenarioCall(k) =>
            /\ last'.result = "ok"
            /\ events' = SubSeq(ScenarioLog, 1, k)
            /\ (k = 1 => last'.ret = <<1>>)

\* The ticket after each call of the scenario, and the reads at its end.
ScenarioReads ==
    /\ events = SubSeq(ScenarioLog, 1, 1) =>
          tickets[1].id = 1 /\ tickets[1].status = "Open" /\ tickets[1].assignedTo = ZERO
    /\ events = SubSeq(ScenarioLog, 1, 2) =>
          tickets[1].status = "InProgress" /\ tickets[1].assignedTo = "M2"
    /\ events = SubSeq(ScenarioLog, 1, 3) => tickets[1].status = "Resolved"
    /\ events = SubSeq(ScenarioLog, 1, 4) =>
          tickets[1].status = "Open" /\ tickets[1].assignedTo = ZERO
    /\ events = ScenarioLog =>
          /\ tickets[1].status = "Open"
          /\ tickets[1].assignedTo = ZERO
          /\ Len(ticketComments[1]) = 1
          /\ (last.op = "getTicket" /\ last.ticketId = 1) =>
                /\ last.result = "ok"
                /\ last.ret[1].status = "Open"
                /\ last.ret[1].assignedTo = ZERO
          /\ (last.op = "getTicketComments" /\ last.ticketId = 1) =>
                /\ last.result = "ok"
                /\ Len(last.ret) = 1
                /\ last.ret[1].id = 1
                /\ last.ret[1].author = "A"
                /\ last.ret[1].content = "still broken"

\* C18: from a fresh registry in which M and M2 are Managers, A creates a
\* ticket (id 1, Open), M assigns it to M2 (InProgress, assignee M2), M2 resolves
\* it (Resolved), M reopens it (Open, no assignee) and A adds the comment "still
\* broken" (comment id 1); every step succeeds, and at the end getTicket(1) has
\* status Open and no assignee and getTicketComments(1) is exactly one comment
\* with id 1, author A and content "still broken".
C18_Scenario == [][ScenarioStepsSucceed]_vars /\ []ScenarioReads

\* The comments of ticket 1 are read at the end of the scenario.
C18_Witness ==
    /\ events = ScenarioLog
    /\ last.op = "getTicketComments"
    /\ last.ticketId = 1
    /\ Len(last.ret) = 1
    /\ tickets[1].status = "Open"
    /\ tickets[1].assignedTo = ZERO

\* The ticket is read at the end of the scenario.
C18_WitnessTicket ==
    /\ events = ScenarioLog
    /\ last.op = "getTicket"
    /\ last.ticketId = 1
    /\ last.result = "ok"

\* ------------------------------------------------------------------ C19
\* C19: one submission of the ticket form sends at most one createTicket
\* transaction and never sends it again: it is sent only after the validation
\* passed, the wallet was connected and the description upload succeeded, and
\* when the transaction or its confirmation fails the submission ends with the
\* failure reported and still one transaction sent.
C19_AtMostOneCreateTicket ==
    /\ form.sent <= 1
    /\ form.sent = 1 =>
          /\ form.valid
          /\ form.connected
          /\ form.descriptionHash \in Descriptions
    /\ form.outcome = "failed" =>
          /\ form.notice = "error"
          /\ form.pc = "idle"
          /\ ~form.isSubmitting
    /\ CreatedCount <= form.submissions
    /\ form.pc \in {"pending", "waiting"} => form.sent = 1

\* The second submission's transaction failed after it was sent once: the
\* failure is reported and the registry holds the first submission's ticket only.
C19_Witness ==
    /\ form.submissions = 2
    /\ form.outcome = "failed"
    /\ form.sent = 1
    /\ form.notice = "error"
    /\ form.pc = "idle"
    /\ nextTicketId = 2

\* ------------------------------------------------------------------ C20
\* C20: updateStatus does not restrict the source status: called by the creator,
\* the assignee or a Manager on an existing ticket it succeeds whatever the
\* ticket's status and whatever the status asked for (the same one and Open to
\* Closed included), sets the status asked for and updatedAt, and leaves the
\* assignee and every other field and ticket as they were.
C20_UpdateStatusAnyToAny ==
    [][(/\ IsCall
        /\ last'.op = "updateStatus"
        /\ ~Absent(last'.ticketId)
        /\ \/ tickets[last'.ticketId].creator = last'.sender
           \/ tickets[last'.ticketId].assignedTo = last'.sender
           \/ userRoles[last'.sender] = "Manager") =>
        LET i == last'.ticketId IN
        /\ last'.result = "ok"
        /\ tickets' = [tickets EXCEPT ![i] =
                          [@ EXCEPT !.status = last'.args[1], !.updatedAt = last'.at]]
        /\ tickets'[i].assignedTo = tickets[i].assignedTo
        /\ UNCHANGED <<userRoles, ticketComments, nextTicketId, nextCommentId>>]_vars

\* An assigned ticket has been set back to Open by updateStatus and is still
\* assigned.
C20_Witness ==
    /\ last.op = "updateStatus"
    /\ last.result = "ok"
    /\ last.args = <<"Open">>
    /\ Len(events) = 3
    /\ events[2].name = "TicketAssigned"
    /\ events[2].ticketId = last.ticketId
    /\ tickets[last.ticketId].status = "Open"
    /\ tickets[last.ticketId].assignedTo = events[2].assignee

\* A ticket went from Open to Closed directly, and then from Closed to Closed.
C20_WitnessSkipAndRepeat ==
    /\ last.op = "updateStatus"
    /\ last.result = "ok"
    /\ Len(events) = 3
    /\ events[1].name = "TicketCreated"
    /\ events[2].name = "StatusUpdated"
    /\ events[2].ticketId = 1
    /\ events[2].status = "Closed"
    /\ events[3] = StatusUpdated(1, "Closed", last.sender)
    /\ tickets[1].status = "Closed"

\* Tickets in each of the statuses other than Open, set by updateStatus.
C20_WitnessInProgress ==
    last.op = "updateStatus" /\ last.result = "ok"
        /\ tickets[last.ticketId].status = "InProgress"
C20_WitnessResolved ==
    last.op = "updateStatus" /\ last.result = "ok"
        /\ tickets[last.ticketId].status = "Resolved"
C20_WitnessClosed ==
    last.op = "updateStatus" /\ last.result = "ok"
        /\ tickets[last.ticketId].status = "Closed"

\* ------------------------------------------------------------------ C21
\* C21: assignTicket, resolveTicket and closeTicket do not read the ticket's
\* status: called by a Manager on an existing ticket (assignTicket with a
\* Manager as assignee) they succeed whatever the status is and leave the ticket
\* InProgress, Resolved and Closed respectively; resolveTicket and closeTicket
\* leave the assignee as it was.
C21_ManagerOpsFromAnyStatus ==
    [][(/\ IsCall
        /\ last'.op \in {"assignTicket", "resolveTicket", "closeTicket"}
        /\ ~Absent(last'.ticketId)
        /\ userRoles[last'.sender] = "Manager"
        /\ last'.op = "assignTicket" => userRoles[last'.args[1]] = "Manager") =>
        LET i == last'.ticketId IN
        /\ last'.result = "ok"
        /\ tickets'[i].status =
              CASE last'.op = "assignTicket" -> "InProgress"
                [] last'.op = "resolveTicket" -> "Resolved"
                [] last'.op = "closeTicket" -> "Closed"
        /\ last'.op # "assignTicket" => tickets'[i].assignedTo = tickets[i].assignedTo]_vars

\* A ticket that was assigned and then closed has been resolved, and is still
\* assigned.
C21_Witness ==
    /\ last.op = "resolveTicket"
    /\ last.result = "ok"
    /\ Len(events) = 4
    /\ events[2].name = "TicketAssigned"
    /\ events[3].name = "StatusUpdated"
    /\ events[3].status = "Closed"
    /\ tickets[last.ticketId].status = "Resolved"
    /\ tickets[last.ticketId].assignedTo = events[2].assignee

\* A Closed ticket has been assigned directly, without a reopen.
C21_WitnessAssignClosed ==
    /\ last.op = "assignTicket"
    /\ last.result = "ok"
    /\ Len(events) = 3
    /\ events[2].name = "StatusUpdated"
    /\ events[2].status = "Closed"
    /\ tickets[last.ticketId].status = "InProgress"

\* A Resolved ticket has been closed, and a Closed ticket has been closed again.
C21_WitnessClose ==
    /\ last.op = "closeTicket"
    /\ last.result = "ok"
    /\ Len(events) = 4
    /\ events[2].name = "StatusUpdated"
    /\ events[2].status = "Resolved"
    /\ events[3].name = "StatusUpdated"
    /\ events[3].status = "Closed"
    /\ tickets[last.ticketId].status = "Closed"

\* ------------------------------------------------------------------ C22
\* C22 as stated: in every reachable state each ticket's assignee is absent or
\* an identity that holds the Manager role in that state.
C22_AssigneeIsManagerNow ==
    \A i \in TicketKeys :
        tickets[i].assignedTo = ZERO \/ userRoles[tickets[i].assignedTo] = "Manager"

\* The positions in the log of the events that set or clear ticket i's assignee.
AssigneeEvents(i) ==
    {j \in DOMAIN events :
        /\ events[j].name \in {"TicketAssigned", "TicketReopened"}
        /\ events[j].ticketId = i}

\* The greatest element of a non-empty set of positions.
Latest(js) == CHOOSE j \in js : \A k \in js : k <= j

\* C22 as amended: a ticket's assignee is absent or the identity named by the
\* latest accepted assignTicket on the ticket, and an assignTicket is accepted
\* only for an assignee who holds the Manager role when the call is made; the
\* assignee stays when its role is changed afterwards.
C22_AssigneeWasManagerWhenAssigned ==
    /\ (last.op = "assignTicket" /\ last.result = "ok") =>
          /\ userRoles[last.args[1]] = "Manager"
          /\ tickets[last.ticketId].assignedTo = last.args[1]
    /\ \A i \in TicketKeys :
          tickets[i].assignedTo =
              IF AssigneeEvents(i) = {} THEN ZERO
              ELSE IF events[Latest(AssigneeEvents(i))].name = "TicketAssigned"
              THEN events[Latest(AssigneeEvents(i))].assignee
              ELSE ZERO

\* A, the assignee of a ticket, has been demoted to User and is still its
\* assignee.
C22_Witness ==
    /\ last.op = "setUserRole"
    /\ last.result = "ok"
    /\ last.args = <<"A", "User">>
    /\ userRoles["A"] = "User"
    /\ \E i \in TicketIds : tickets[i].assignedTo = "A" /\ tickets[i].status = "InProgress"

\* ------------------------------------------------------------------ C23
\* C23: getAllTickets returns exactly nextTicketId - 1 records; the record at
\* position i has id i and is the record getTicket(i) returns, none is the
\* zero-valued record, and on a fresh registry the list is empty.
C23_GetAllTickets ==
    /\ last.op = "getAllTickets" =>
          /\ last.result = "ok"
          /\ Len(last.ret) = nextTicketId - 1
          /\ nextTicketId = 1 => last.ret = <<>>
          /\ \A i \in 1 .. Len(last.ret) :
                /\ last.ret[i].id = i
                /\ last.ret[i] = tickets[i]
                /\ last.ret[i] # ZeroTicket
    /\ (last.op = "getTicket" /\ last.result = "ok") =>
          last.ret = <<tickets[last.ticketId]>>
    /\ \A i \in 1 .. (nextTicketId - 1) : TicketExists(i)

\* Both tickets of the registry are listed, the first Closed and the second Open.
C23_Witness ==
    /\ last.op = "getAllTickets"
    /\ Len(last.ret) = 2
    /\ last.ret[1].status = "Closed"
    /\ last.ret[2].status = "Open"

\* The list of a fresh registry is empty.
C23_WitnessFresh ==
    /\ last.op = "getAllTickets"
    /\ last.ret = <<>>
    /\ nextTicketId = 1

\* ------------------------------------------------------------------ C24
StatusOps == {"updateStatus", "assignTicket", "resolveTicket", "closeTicket", "reopenTicket"}

\* Every ticket was created no later than it was last updated, and that no later
\* than now; the ticket written by an accepted status operation carries the time
\* of that call.
TimestampsOrdered ==
    /\ \A i \in TicketKeys :
          tickets[i].createdAt <= tickets[i].updatedAt /\ tickets[i].updatedAt <= now
    /\ (last.op \in StatusOps /\ last.result = "ok") =>
          tickets[last.ticketId].updatedAt = last.at

\* C24: with a ledger clock that never goes backwards, every ticket has
\* createdAt <= updatedAt in every reachable state, updatedAt never decreases,
\* and each successful updateStatus, assignTicket, resolveTicket, closeTicket or
\* reopenTicket sets the ticket's updatedAt to the time of the call.
C24_Timestamps ==
    /\ []TimestampsOrdered
    /\ [][\A i \in TicketKeys : tickets'[i].updatedAt >= tickets[i].updatedAt]_vars

\* A ticket created in the first block has been closed in the second.
C24_Witness ==
    /\ last.op = "closeTicket"
    /\ last.result = "ok"
    /\ last.at = 2
    /\ tickets[last.ticketId].createdAt = 1
    /\ tickets[last.ticketId].updatedAt = 2

C26_OtherTicketsUntouched ==
    [][/\ (IsCall /\ last'.op \in MutatingIdOps) =>
            \A j \in TicketKeys :
                j # last'.ticketId =>
                    /\ tickets'[j] = tickets[j]
                    /\ ticketComments'[j] = ticketComments[j]
       /\ (IsCall /\ last'.op = "createTicket") =>
            \A j \in TicketKeys :
                TicketExists(j) =>
                    /\ tickets'[j] = tickets[j]
                    /\ ticketComments'[j] = ticketComments[j]]_vars

\* The second ticket has been closed and the first, created before it, is Open.
C26_Witness ==
    /\ last.op = "closeTicket"
    /\ last.result = "ok"
    /\ last.ticketId = 2
    /\ tickets[2].status = "Closed"
    /\ tickets[1].id = 1
    /\ tickets[1].status = "Open"

\* A second ticket has been created beside a resolved first one.
C26_WitnessCreate ==
    /\ last.op = "createTicket"
    /\ last.ret = <<2>>
    /\ tickets[1].status = "Resolved"
    /\ tickets[2].status = "Open"

\* ------------------------------------------------------------------ C27
\* The places <<ticket, position>> at which a comment is stored.
CommentPlaces ==
    {p \in TicketKeys \X (1 .. MaxComments) : p[2] <= Len(ticketComments[p[1]])}

CommentAt(p) == ticketComments[p[1]][p[2]]

\* C27: the comments stored over all tickets number nextCommentId - 1, their ids
\* are pairwise distinct over the registry and strictly increasing within a
\* ticket's list, each comment's ticketId is the id of the ticket whose list
\* holds it, and only an existing ticket has a non-empty list.
C27_CommentStore ==
    /\ \A i \in TicketKeys : Len(ticketComments[i]) <= MaxComments
    /\ Cardinality(CommentPlaces) = nextCommentId - 1
    /\ \A p, q \in CommentPlaces : p # q => CommentAt(p).id # CommentAt(q).id
    /\ \A p, q \in CommentPlaces :
          (p[1] = q[1] /\ p[2] < q[2]) => CommentAt(p).id < CommentAt(q).id
    /\ \A p \in CommentPlaces :
          /\ CommentAt(p).ticketId = p[1]
          /\ CommentAt(p).id \in 1 .. (nextCommentId - 1)
    /\ \A i \in TicketKeys : ticketComments[i] # <<>> => TicketExists(i)

\* Two tickets hold one comment each, the older comment on the second ticket.
C27_Witness ==
    /\ last.op = "getTicketComments"
    /\ last.result = "ok"
    /\ nextCommentId = 3
    /\ Len(ticketComments[1]) = 1
    /\ Len(ticketComments[2]) = 1
    /\ ticketComments[2][1].id < ticketComments[1][1].id

\* ------------------------------------------------------------------ C28
\* The status and assignee of ticket i obtained by replaying the log in order:
\* TicketCreated gives Open and no assignee, StatusUpdated its status,
\* TicketAssigned InProgress and its assignee, TicketReopened Open and no
\* assignee; an event of another ticket, or a CommentAdded, changes nothing.
NotCreated == [status |-> "none", assignedTo |-> ZERO]

RECURSIVE Replay(_, _)
Replay(log, i) ==
    IF log = <<>>
    THEN NotCreated
    ELSE LET e == log[Len(log)]
             before == Replay(SubSeq(log, 1, Len(log) - 1), i)
         IN  IF e.ticketId # i THEN before
             ELSE CASE e.name = "TicketCreated" -> [status |-> "Open", assignedTo |-> ZERO]
                    [] e.name = "StatusUpdated" -> [before EXCEPT !.status = e.status]
                    [] e.name = "TicketAssigned" ->
                          [status |-> "InProgress", assignedTo |-> e.assignee]
                    [] e.name = "TicketReopened" -> [status |-> "Open", assignedTo |-> ZERO]
                    [] OTHER -> before

\* C28: the event stream determines each ticket's status and assignee: in every
\* reachable state the replay of the log yields, for every ticket, exactly the
\* status and assignee stored, and nothing for an id without a ticket.
C28_EventsDetermineTickets ==
    \A i \in TicketKeys :
        Replay(events, i) =
            IF TicketExists(i)
            THEN [status |-> tickets[i].status, assignedTo |-> tickets[i].assignedTo]
            ELSE NotCreated

\* A ticket has been assigned by a Manager and then set to Resolved by
\* updateStatus: the log holds its three events.
C28_Witness ==
    /\ Len(events) = 3
    /\ events[2].name = "TicketAssigned"
    /\ events[3].name = "StatusUpdated"
    /\ last.op = "updateStatus"
    /\ last.result = "ok"
    /\ tickets[1].status = "Resolved"
    /\ tickets[1].assignedTo # ZERO

\* Of two tickets the second has been assigned and the first is untouched: the
\* events of the two tickets are interleaved in the log.
C28_WitnessTwoTickets ==
    /\ Len(events) = 3
    /\ nextTicketId = 3
    /\ last.op = "assignTicket"
    /\ last.result = "ok"
    /\ tickets[1].status = "Open"
    /\ tickets[2].status = "InProgress"
    /\ tickets[2].assignedTo # ZERO

\* ------------------------------------------------------------------ C29
AllSet ==
    /\ wallet.user # NoUser
    /\ wallet.provider # 0
    /\ wallet.signer # 0
    /\ wallet.contract # 0

Disconnected ==
    /\ ~wallet.isConnected
    /\ wallet.user = NoUser
    /\ wallet.provider = 0
    /\ wallet.signer = 0
    /\ wallet.contract = 0

Awaiting(c) == wallet.calls[c].pc \notin {"unused", "connecting", "done"}

DisconnectEnds == wallet.running = "disconnectWallet" /\ wallet'.running = "none"

\* C29: the connection state of the wallet context is consistent: in every
\* reachable state, between any two setters included, isConnected is true only
\* when user, provider, signer and contract are all set; and when
\* disconnectWallet ends, isConnected is false and the four are null.  Calls of
\* connectWallet may be awaiting the wallet meanwhile, and more than one.
C29_ConnectionConsistent ==
    /\ [](wallet.isConnected => AllSet)
    /\ [][DisconnectEnds => Disconnected']_vars

\* disconnectWallet has ended after the first connectWallet call connected,
\* and the second call is still awaiting the wallet.
C29_Witness ==
    /\ ThreadFree
    /\ Disconnected
    /\ wallet.calls[1].path = "success"
    /\ Awaiting(2)

\* The second connectWallet call has connected after the first one did: the
\* connection is the one it made.
C29_WitnessSecondConnect ==
    /\ ThreadFree
    /\ wallet.isConnected
    /\ wallet.calls[1].path = "success"
    /\ wallet.calls[2].path = "success"
    /\ wallet.provider = 2
    /\ wallet.contract = 2

\* The first call connected while the second, made earlier than the first
\* ended, has ended without accounts.
C29_WitnessConnectedAfterFailure ==
    /\ ThreadFree
    /\ wallet.isConnected
    /\ AllSet
    /\ wallet.provider = 1
    /\ wallet.calls[2].path = "noAccounts"

\* ------------------------------------------------------------------ C30
ConnectEnds(c) == wallet.calls[c].pc # "done" /\ wallet'.calls[c].pc = "done"

HandleSubmitEnds ==
    /\ form'.pc = "idle"
    /\ form.pc # "idle" \/ form'.submissions > form.submissions

\* C30: the step in which a connectWallet call ends leaves isConnecting false,
\* on every path (success, no accounts, contract code missing, contract not
\* deployed, a thrown error, and the return without window.ethereum), and the
\* step in which a handleSubmit call ends leaves isSubmitting false, whether
\* validation, the wallet check, an upload or the transaction failed or all
\* succeeded.
C30_BusyFlagsCleared ==
    [][/\ \A c \in ConnectCalls : ConnectEnds(c) => ~wallet'.isConnecting
       /\ HandleSubmitEnds => ~form'.isSubmitting]_vars

\* A connectWallet call has ended on a thrown error and a handleSubmit call on
\* a failed upload or transaction; both flags are down.
C30_Witness ==
    /\ wallet.calls[1].path = "thrown"
    /\ ~wallet.isConnecting
    /\ form.pc = "idle"
    /\ form.outcome = "failed"
    /\ ~form.isSubmitting

\* The other ways a connectWallet call ends.
C30_WitnessSuccess ==
    wallet.calls[1].path = "success" /\ ~wallet.isConnecting /\ wallet.isConnected

C30_WitnessNoAccounts ==
    wallet.calls[1].path = "noAccounts" /\ ~wallet.isConnecting

C30_WitnessCodeMissing ==
    wallet.calls[1].path = "codeMissing" /\ ~wallet.isConnecting

C30_WitnessNotDeployed ==
    wallet.calls[1].path = "notDeployed" /\ ~wallet.isConnecting

C30_WitnessNoEthereum ==
    wallet.calls[1].path = "noEthereum" /\ ~wallet.isConnecting

\* The ticket was created: handleSubmit ended after the receipt arrived.
C30_WitnessSubmitted ==
    /\ form.pc = "idle"
    /\ form.outcome = "submitted"
    /\ ~form.isSubmitting
    /\ CreatedCount = 1

\* ------------------------------------------------------------------ C31
\* The listener received a notification in this step.
Delivered == wallet'.heard.tick # wallet.heard.tick

\* Two spellings of one account.
SameAccount(x, y) == toLowerCase(x) = toLowerCase(y)

\* The notification names no account, or a first account other than the
\* connected user's.
NamesAnotherAccount(accounts) ==
    \/ Len(accounts) = 0
    \/ ~SameAccount(accounts[1], wallet.user.address)

\* While connected, a notification without accounts or with another first
\* account starts disconnectWallet, which ends in the disconnected state.
C31_OtherAccountDisconnects ==
    /\ [][(Delivered /\ NamesAnotherAccount(wallet'.heard.accounts)) =>
              (~wallet'.isConnected /\ wallet'.running = "disconnectWallet")]_vars
    /\ [][DisconnectEnds => Disconnected']_vars

\* While connected, a notification whose first account is the connected user's
\* changes nothing of the context.
C31_SameAccountChangesNothing ==
    [][(Delivered /\ ~NamesAnotherAccount(wallet'.heard.accounts)) =>
          wallet' = [wallet EXCEPT !.account = wallet'.account,
                                   !.heard = wallet'.heard]]_vars

\* Once the listener has handled a notification, whenever the context is
\* connected its user's address is the wallet's first account.
C31_ConnectedAsWalletAccount ==
    [](/\ wallet.heard.any
       /\ ThreadFree
       /\ wallet.isConnected
       => /\ wallet.account # ZERO
          /\ SameAccount(wallet.user.address, wallet.account))

\* C31: while connected, an accountsChanged notification whose account list is
\* empty or whose first account differs, compared in lower case, from the
\* connected user's address puts the context into the disconnected state; one
\* whose first account is the connected address changes nothing; and after such
\* a notification was handled the connected state never holds a user address
\* other than the wallet's first account.
C31_AccountsChanged ==
    /\ C31_OtherAccountDisconnects
    /\ C31_SameAccountChangesNothing
    /\ C31_ConnectedAsWalletAccount

====
